---- MODULE Spec2Model ----
(***************************************************************************)
(* Session workflow engine of the career_advisor backend.                  *)
(*                                                                         *)
(* Interview kind: InterviewStateManager (backend/state_manager.py) with   *)
(* its LangGraph graph, the process-local cache `states`, the registry     *)
(* table InterviewSession and the message log ChatMessage; and the older   *)
(* /interview router (backend/api/interview.py) that shares the same two   *)
(* tables and keeps its own process-local store `interview_sessions`.      *)
(* SpecRace runs two submit_answer calls in two worker processes, each     *)
(* with its own cache, over the shared tables.                             *)
(*                                                                         *)
(* Assessment kind (SpecAssess): the /assessment router                    *)
(* (backend/api/assessment.py) with the CareerAssessmentWorkflow graph     *)
(* (backend/career_workflow.py), the registry table CareerAssessment, the  *)
(* message log AssessmentMessage and the table AssessmentResult.           *)
(*                                                                         *)
(* SpecLog runs the operations of InterviewStateManager on a session's     *)
(* log.  SpecFold, SpecFeedback, SpecRoadmap and SpecWorkflow apply        *)
(* _load_state_from_db, feedback_generator, generate_roadmap and the       *)
(* assessment graph to inputs drawn from bounded sets.                     *)
(* SpecRoute applies should_continue and the graph's edges after each      *)
(* node.  SpecSteps runs create_interview_session and submit_answer one    *)
(* commit at a time, with a crash possible between any two.  SpecItems     *)
(* runs the calls of both routers that write to a session's log.           *)
(* SpecStages and SpecGraph run the assessment graph and the interview     *)
(* graph one node at a time.  SpecSessions runs two sessions side by side, *)
(* SpecDelete adds the two delete endpoints, SpecScores adds               *)
(* fix_assessment_status.py to the assessment calls.                       *)
(*                                                                         *)
(* Roadmap kind (SpecRoadmaps): the /roadmap router                        *)
(* (backend/api/roadmap_new.py) with the tables LearningRoadmap and        *)
(* RoadmapCheckpoint.                                                      *)
(*                                                                         *)
(* Opaque payload that never influences control flow (role, company,       *)
(* resume_text, timestamps' values, the user_id of sessions and            *)
(* assessments) is left out of the records.                                *)
(* A Python float that is a quotient is kept exact as [num, den].          *)
(***************************************************************************)
EXTENDS Integers, Sequences, FiniteSets, TLC

\* ---------------------------------------------------------------- bounds
Threads == {"t1"}

\* answer messages a session's log may hold before submissions are cut off
MaxAnswerMsgs == 4

\* largest question_number a caller submits (3 prompts: one past the range)
MaxQuestionNumber == 4

QuestionNumbers == 0..MaxQuestionNumber

AnswerTexts == {"a"}

\* outcome of the question-generation LLM call
GenOutcomes == {"ok", "short", "raise"}

\* outcome of the roadmap LLM call
RoadmapOutcomes == {"ok", "empty", "raise"}

NoneInt == -1

NoRow == [present |-> FALSE]

NoState == [present |-> FALSE]

ZeroScore == [num |-> 0, den |-> 1]

\* ------------------------------------------------------ LLM collaborators
\* A reply of feedback_llm: it raises, or returns a text that may carry a
\* "Score:" token which may or may not parse as an integer.
LLMRaise == [raises |-> TRUE, text |-> "", has_score |-> FALSE, parses |-> FALSE, value |-> 0]

LLMReply(text, has_score, parses, value) ==
    [raises |-> FALSE, text |-> text, has_score |-> has_score, parses |-> parses, value |-> value]

FeedbackReplies == {LLMRaise, LLMReply("good answer", TRUE, TRUE, 9)}

FeedbackReplySeqs == [1..3 -> FeedbackReplies]

Min(a, b) == IF a < b THEN a ELSE b

Max(a, b) == IF a > b THEN a ELSE b

\* ----------------------------------------------------------- generator.py
GeneratedQuestions == <<"gen q1", "gen q2", "gen q3">>

FallbackQuestions == <<"Tell me about yourself.", "What are your strengths?", "Why do you want this role?">>

\* generate_question returns its list under the key "question"
generate_question(gen) ==
    [question |-> IF gen = "ok" THEN GeneratedQuestions ELSE SubSeq(GeneratedQuestions, 1, 2)]

\* ------------------------------------------------------------ feedback.py
\* generate_feedback taking the parsed score as it is, without min and max
generate_feedback_NoClamp(question, answer, reply) ==
    IF question = "" \/ answer = "" \/ answer = "[No answer provided]"
    THEN [feedback |-> "No answer was provided for this question.", marks |-> 0]
    ELSE IF reply.raises
    THEN [feedback |-> "An error occurred while generating feedback.", marks |-> 5]
    ELSE [feedback |-> IF reply.text = "" THEN "No specific feedback was generated." ELSE reply.text,
          marks |-> IF reply.has_score /\ reply.parses THEN reply.value ELSE 5]

generate_feedback(question, answer, reply) ==
    IF question = "" \/ answer = "" \/ answer = "[No answer provided]"
    THEN [feedback |-> "No answer was provided for this question.", marks |-> 0]
    ELSE IF reply.raises
    THEN [feedback |-> "An error occurred while generating feedback.", marks |-> 5]
    ELSE [feedback |-> IF reply.text = "" THEN "No specific feedback was generated." ELSE reply.text,
          marks |-> IF reply.has_score /\ reply.parses
                    THEN Min(10, Max(1, reply.value))
                    ELSE 5]

\* feedback_generator leaving out the items whose collaborator call failed
feedback_generator_DropsFailed(question, answer, replies) ==
    IF Len(question) < 3 \/ Len(answer) < 3
    THEN << [feedback |-> "Not enough questions or answers to generate feedback.", marks |-> 0] >>
    ELSE LET kept == SelectSeq(<<1, 2, 3>>, LAMBDA i : ~replies[i].raises)
         IN [k \in 1..Len(kept) |->
               generate_feedback(question[kept[k]], answer[kept[k]], replies[kept[k]])]

feedback_generator(question, answer, replies) ==
    IF Len(question) < 3 \/ Len(answer) < 3
    THEN << [feedback |-> "Not enough questions or answers to generate feedback.", marks |-> 0] >>
    ELSE [i \in 1..3 |-> generate_feedback(question[i], answer[i], replies[i])]

\* ------------------------------------------------------------- roadmap.py
\* generate_roadmap returning the collaborator's reply as it is
generate_roadmap_Unchecked(feedback, rm) ==
    IF Len(feedback) = 0 THEN "No feedback available to generate a roadmap."
    ELSE IF rm = "raise" THEN "# Error Generating Roadmap"
    ELSE IF rm = "empty" THEN ""
    ELSE "roadmap text"

generate_roadmap(feedback, rm) ==
    IF Len(feedback) = 0 THEN "No feedback available to generate a roadmap."
    ELSE IF rm = "raise" THEN "# Error Generating Roadmap"
    ELSE IF rm = "empty" THEN "# Learning Roadmap - could not generate"
    ELSE "roadmap text"

\* ------------------------------------------- state_manager.py: graph nodes
RECURSIVE SumSeq(_)
SumSeq(s) == IF Len(s) = 0 THEN 0 ELSE s[1] + SumSeq(Tail(s))

\* start_interview without the fallback list for a short generator result
start_interview_NoFallback(state, gen) ==
    LET question_result == generate_question(gen)
        questions == IF "questions" \in DOMAIN question_result
                     THEN question_result["questions"] ELSE <<>>
    IN [state EXCEPT
          !.questions = questions,
          !.current_question = 0,
          !.answers = <<>>,
          !.feedback = <<>>,
          !.marks = <<>>,
          !.status = "in_progress",
          !.chat_history = <<[type |-> "system", question_number |-> NoneInt]>>
                           \o [i \in 1..Len(questions) |-> [type |-> "question", question_number |-> i]]]

start_interview(state, gen) ==
    LET question_result == generate_question(gen)
        got == IF "questions" \in DOMAIN question_result
               THEN question_result["questions"] ELSE <<>>
        questions == IF Len(got) < 3 THEN FallbackQuestions ELSE got
    IN [state EXCEPT
          !.questions = questions,
          !.current_question = 0,
          !.answers = <<>>,
          !.feedback = <<>>,
          !.marks = <<>>,
          !.status = "in_progress",
          !.chat_history = <<[type |-> "system", question_number |-> NoneInt]>>
                           \o [i \in 1..Len(questions) |-> [type |-> "question", question_number |-> i]]]

process_answer(state) ==
    LET current_q == state.current_question
    IN IF current_q < Len(state.answers)
       THEN [state EXCEPT
               !.chat_history = Append(@, [type |-> "answer", question_number |-> current_q + 1]),
               !.current_question = current_q + 1]
       ELSE state

generate_feedback_node(state, replies) ==
    IF Len(state.answers) >= 3
    THEN LET feedback_items == feedback_generator(state.questions, state.answers, replies)
             marks == [i \in 1..Len(feedback_items) |-> feedback_items[i].marks]
             total_score == SumSeq(marks)
         IN [state EXCEPT
               !.feedback = feedback_items,
               !.marks = marks,
               !.total_score = total_score,
               !.average_score = IF Len(marks) > 0
                                 THEN [num |-> total_score, den |-> Len(marks)]
                                 ELSE ZeroScore,
               !.chat_history = @ \o [i \in 1..Len(feedback_items) |->
                                        [type |-> "feedback", question_number |-> i]]]
    ELSE state

generate_roadmap_step(state, rm) ==
    IF Len(state.feedback) > 0
    THEN [state EXCEPT
            !.roadmap = generate_roadmap(state.feedback, rm),
            !.status = "completed",
            !.completed_at = TRUE,
            !.chat_history = Append(@, [type |-> "roadmap", question_number |-> NoneInt])]
    ELSE state

\* should_continue asking for feedback as soon as 2 answers are recorded
should_continue_TwoAnswers(state) ==
    IF Len(state.answers) < 2 THEN "wait_for_answer"
    ELSE IF Len(state.feedback) = 0 THEN "generate_feedback"
    ELSE IF state.roadmap = "" THEN "generate_roadmap"
    ELSE "end"

should_continue(state) ==
    IF Len(state.answers) < 3 THEN "wait_for_answer"
    ELSE IF Len(state.feedback) = 0 THEN "generate_feedback"
    ELSE IF state.roadmap = "" THEN "generate_roadmap"
    ELSE "end"

\* conditional edges of the compiled graph; "END" halts the invocation
GraphEdges ==
    [start_interview |-> [wait_for_answer |-> "process_answer",
                          generate_feedback |-> "generate_feedback",
                          generate_roadmap |-> "generate_roadmap",
                          end |-> "END"],
     process_answer |-> [wait_for_answer |-> "END",
                         generate_feedback |-> "generate_feedback",
                         generate_roadmap |-> "generate_roadmap",
                         end |-> "END"],
     generate_feedback |-> [generate_roadmap |-> "generate_roadmap",
                            end |-> "END"]]

\* graph.invoke: always enters at start_interview; a node that raises, or a
\* routing key with no edge, aborts the invocation with an exception.
RECURSIVE RunFrom(_, _, _)
RunFrom(node, state, c) ==
    IF node = "END" THEN [err |-> FALSE, st |-> state]
    ELSE IF node = "generate_roadmap"
    THEN [err |-> FALSE, st |-> generate_roadmap_step(state, c.rm)]
    ELSE IF node = "start_interview" /\ c.gen = "raise"
    THEN [err |-> TRUE, st |-> state]
    ELSE LET s1 == IF node = "start_interview" THEN start_interview(state, c.gen)
                   ELSE IF node = "process_answer" THEN process_answer(state)
                   ELSE generate_feedback_node(state, c.replies)
             key == should_continue(s1)
         IN IF key \in DOMAIN GraphEdges[node]
            THEN RunFrom(GraphEdges[node][key], s1, c)
            ELSE [err |-> TRUE, st |-> s1]

graph_invoke(state, c) == RunFrom("start_interview", state, c)

DefaultReplies == [i \in 1..3 |-> LLMRaise]

\* The collaborator outcomes one invocation on `state` can observe: the
\* scoring and roadmap LLMs have an outcome only when their stage runs.
Collaborators(state) ==
    UNION { LET probe == graph_invoke(state, [gen |-> gen, replies |-> DefaultReplies, rm |-> "ok"])
            IN IF probe.err \/ Len(probe.st.feedback) = 0
               THEN {[gen |-> gen, replies |-> DefaultReplies, rm |-> "ok"]}
               ELSE [gen : {gen}, replies : FeedbackReplySeqs, rm : RoadmapOutcomes]
            : gen \in GenOutcomes }

\* /interview/submit-answers calls both LLMs directly
DirectCollaborators == [gen : {"ok"}, replies : FeedbackReplySeqs, rm : RoadmapOutcomes]

\* ------------------------------------------------------------------ state
VARIABLES
    states,               \* InterviewStateManager.states: thread_id -> cached state
    peer_states,          \* the same cache in a second worker process
    registry,             \* InterviewSession rows, by thread_id
    log,                  \* ChatMessage rows of a thread, in created_at order
    interview_sessions,   \* api/interview.py: process-local store of /interview
    assessments,          \* CareerAssessment rows, by assessment
    assessment_messages,  \* AssessmentMessage rows of an assessment
    assessment_results,   \* AssessmentResult rows of an assessment
    roadmaps,             \* LearningRoadmap rows, each with its RoadmapCheckpoint rows
    race,                 \* the calls in flight, with the step each has reached
    lastResult            \* what the last call returned or raised

vars == <<states, peer_states, registry, log, interview_sessions,
          assessments, assessment_messages, assessment_results, roadmaps, race,
          lastResult>>

NoMem == [present |-> FALSE]

NoRace == [active |-> FALSE]

NoResult ==
    [op |-> "none", thread |-> "", outcome |-> "", status |-> "", completed |-> FALSE,
     questions |-> <<>>, question_number |-> NoneInt, current_question |-> NoneInt,
     total_score |-> 0, average_score |-> ZeroScore, answers_submitted |-> NoneInt,
     roadmap |-> ""]

ChatMessage(message_type, role, content, question_number, marks) ==
    [message_type |-> message_type, role |-> role, content |-> content,
     question_number |-> question_number, marks |-> marks]

RECURSIVE CountType(_, _)
CountType(msgs, ty) ==
    IF Len(msgs) = 0 THEN 0
    ELSE (IF msgs[1].message_type = ty THEN 1 ELSE 0) + CountType(Tail(msgs), ty)

\* ---------------------------------- state_manager.py: _load_state_from_db
RECURSIVE FoldMessages(_, _)
FoldMessages(msgs, acc) ==
    IF Len(msgs) = 0 THEN acc
    ELSE LET msg == msgs[1]
             nxt == IF msg.message_type = "question"
                    THEN [acc EXCEPT !.questions = Append(@, msg.content),
                                     !.question_count = @ + 1]
                    ELSE IF msg.message_type = "answer"
                    THEN [acc EXCEPT !.answers = Append(@, msg.content),
                                     !.current_question = acc.question_count]
                    ELSE IF msg.message_type = "feedback"
                    THEN [acc EXCEPT !.feedback = Append(@, msg.content),
                                     !.marks = IF msg.marks # NoneInt
                                               THEN Append(@, msg.marks) ELSE @]
                    ELSE acc
         IN FoldMessages(Tail(msgs), nxt)

RECURSIVE FillQuestions(_)
FillQuestions(questions) ==
    IF Len(questions) < 3
    THEN FillQuestions(Append(questions,
            IF Len(questions) = 0 THEN "Interview question 1"
            ELSE IF Len(questions) = 1 THEN "Interview question 2"
            ELSE "Interview question 3"))
    ELSE questions

\* _load_state_from_db folding into lists that outlive the call
load_state_from_db_SharedLists(db_session, messages) ==
    IF ~db_session.present THEN NoState
    ELSE LET kept == IF lastResult.op = "_load_state_from_db" /\ lastResult.state.present
                     THEN lastResult.state.answers ELSE <<>>
             acc == FoldMessages(messages,
                      [questions |-> <<>>, answers |-> kept, feedback |-> <<>>,
                       marks |-> <<>>, current_question |-> 0, question_count |-> 0])
         IN [present |-> TRUE,
             questions |-> FillQuestions(acc.questions),
             current_question |-> acc.current_question,
             answers |-> acc.answers,
             feedback |-> acc.feedback,
             marks |-> acc.marks,
             roadmap |-> "",
             status |-> db_session.status,
             total_score |-> db_session.total_score,
             average_score |-> db_session.average_score,
             completed_at |-> FALSE,
             chat_history |-> <<>>]

load_state_from_db(db_session, messages) ==
    IF ~db_session.present THEN NoState
    ELSE LET acc == FoldMessages(messages,
                      [questions |-> <<>>, answers |-> <<>>, feedback |-> <<>>,
                       marks |-> <<>>, current_question |-> 0, question_count |-> 0])
         IN [present |-> TRUE,
             questions |-> FillQuestions(acc.questions),
             current_question |-> acc.current_question,
             answers |-> acc.answers,
             feedback |-> acc.feedback,
             marks |-> acc.marks,
             roadmap |-> "",
             status |-> db_session.status,
             total_score |-> db_session.total_score,
             average_score |-> db_session.average_score,
             completed_at |-> FALSE,
             chat_history |-> <<>>]

\* ------------------------- state_manager.py: create_interview_session
NewRow(status) ==
    [present |-> TRUE, status |-> status, total_score |-> 0,
     average_score |-> ZeroScore, completed_at |-> FALSE]

initial_state ==
    [present |-> TRUE, questions |-> <<>>, answers |-> <<>>, current_question |-> 0,
     feedback |-> <<>>, marks |-> <<>>, total_score |-> 0, average_score |-> ZeroScore,
     roadmap |-> "", status |-> "started", completed_at |-> FALSE, chat_history |-> <<>>]

QuestionMessages(questions) ==
    [i \in 1..Len(questions) |-> ChatMessage("question", "assistant", questions[i], i, NoneInt)]

\* create_interview_session replacing the cache by one holding the new entry only
create_interview_session_SingleEntry(t, c) ==
    /\ ~registry[t].present
    /\ registry' = [registry EXCEPT ![t] = NewRow("active")]
    /\ LET r == graph_invoke(initial_state, c)
       IN IF r.err
          THEN /\ UNCHANGED <<states, log>>
               /\ lastResult' = [NoResult EXCEPT !.op = "create_interview_session",
                                                 !.thread = t, !.outcome = "Exception"]
          ELSE /\ states' = [u \in DOMAIN states |-> IF u = t THEN r.st ELSE NoState]
               /\ log' = [log EXCEPT ![t] = @ \o QuestionMessages(SubSeq(r.st.questions, 1,
                                                       Min(3, Len(r.st.questions))))]
               /\ lastResult' = [NoResult EXCEPT !.op = "create_interview_session",
                                                 !.thread = t, !.outcome = "ok",
                                                 !.questions = r.st.questions,
                                                 !.status = r.st.status]
    /\ UNCHANGED interview_sessions

create_interview_session(t, c) ==
    /\ ~registry[t].present
    /\ registry' = [registry EXCEPT ![t] = NewRow("active")]
    /\ LET r == graph_invoke(initial_state, c)
       IN IF r.err
          THEN /\ UNCHANGED <<states, log>>
               /\ lastResult' = [NoResult EXCEPT !.op = "create_interview_session",
                                                 !.thread = t, !.outcome = "Exception"]
          ELSE /\ states' = [states EXCEPT ![t] = r.st]
               /\ log' = [log EXCEPT ![t] = @ \o QuestionMessages(SubSeq(r.st.questions, 1,
                                                       Min(3, Len(r.st.questions))))]
               /\ lastResult' = [NoResult EXCEPT !.op = "create_interview_session",
                                                 !.thread = t, !.outcome = "ok",
                                                 !.questions = r.st.questions,
                                                 !.status = r.st.status]
    /\ UNCHANGED interview_sessions

\* ------------------------------------- state_manager.py: submit_answer
RECURSIVE PadAnswers(_, _)
PadAnswers(answers, question_number) ==
    IF Len(answers) < question_number
    THEN PadAnswers(Append(answers, ""), question_number)
    ELSE answers

\* answers[question_number - 1] = answer, with Python's negative indexing;
\* position 0 stands for IndexError
AnswerSlot(answers, question_number) ==
    IF question_number >= 1 THEN question_number
    ELSE IF Len(answers) + question_number >= 1 THEN Len(answers) + question_number
    ELSE 0

\* s[i] where i = question_number - 1 is a Python index (negative from the end)
PyIndex(s, question_number) ==
    IF question_number >= 1 THEN s[question_number] ELSE s[Len(s) + question_number]

SubmitResult(t, question_number) ==
    [NoResult EXCEPT !.op = "submit_answer", !.thread = t, !.question_number = question_number]

\* lines 390-408: take the state from the cache or rebuild it from the
\* database, and write the answer into its answers list
submit_read(cache, db_session, messages, question_number, answer) ==
    LET state == IF cache.present THEN cache ELSE load_state_from_db(db_session, messages)
    IN IF ~state.present
       THEN [outcome |-> "ValueError", cached |-> FALSE, state |-> NoState]
       ELSE LET padded == PadAnswers(state.answers, question_number)
                slot == AnswerSlot(padded, question_number)
            IN IF slot = 0
               THEN [outcome |-> "IndexError", cached |-> cache.present, state |-> NoState]
               ELSE [outcome |-> "go", cached |-> cache.present,
                     state |-> [state EXCEPT !.answers = [padded EXCEPT ![slot] = answer]]]

\* lines 410-428: the answer message, committed before the graph runs
AnswerMessage(question_number, answer) ==
    ChatMessage("answer", "user", answer, question_number, NoneInt)

\* the text a feedback item leaves in the content column of its message
TextOf(feedback_item) == feedback_item.feedback

\* line 435 caching the state that was handed to the graph
states_entry_Input(state, result) == state

\* line 435: self.states[thread_id] = result
states_entry(state, result) == result

\* lines 430-485: run the graph on the state, cache the result, then write
\* the feedback message, the completion of the row and the roadmap message.
\* `cache` is the worker's cache entry and `messages` the log at that time.
submit_finish(t, rd, cache, db_session, messages, question_number, c) ==
    LET r == graph_invoke(rd.state, c)
    IN IF r.err
       THEN \* the list mutated in place is the one the cached state holds
            [cache |-> IF rd.cached /\ cache.present
                       THEN [cache EXCEPT !.answers = rd.state.answers] ELSE cache,
             row |-> db_session, msgs |-> messages,
             res |-> [SubmitResult(t, question_number) EXCEPT !.outcome = "Exception"]]
       ELSE LET result == r.st
                has_feedback == Len(result.feedback) > 0
                                /\ Len(result.feedback) >= question_number
                feedback_message ==
                    ChatMessage("feedback", "assistant",
                                TextOf(PyIndex(result.feedback, question_number)),
                                question_number,
                                IF Len(result.marks) >= question_number
                                THEN PyIndex(result.marks, question_number)
                                ELSE NoneInt)
                is_completed == result.status = "completed"
                roadmap_message ==
                    ChatMessage("roadmap", "assistant", result.roadmap, NoneInt, NoneInt)
            IN [cache |-> states_entry(rd.state, result),
                row |-> IF is_completed
                        THEN [db_session EXCEPT !.status = "completed",
                                                !.total_score = result.total_score,
                                                !.average_score = result.average_score,
                                                !.completed_at = TRUE]
                        ELSE db_session,
                msgs |-> messages
                         \o (IF has_feedback THEN <<feedback_message>> ELSE <<>>)
                         \o (IF is_completed /\ result.roadmap # ""
                             THEN <<roadmap_message>> ELSE <<>>),
                res |-> [SubmitResult(t, question_number) EXCEPT
                           !.outcome = "ok",
                           !.status = result.status,
                           !.current_question = result.current_question,
                           !.total_score = result.total_score,
                           !.average_score = result.average_score,
                           !.completed = is_completed]]

\* one whole call of submit_answer against a worker's cache entry, the row
\* and the log of the thread
submit_answer_effect(t, cache, db_session, messages, question_number, answer, c) ==
    LET rd == submit_read(cache, db_session, messages, question_number, answer)
    IN IF rd.outcome # "go"
       THEN [cache |-> cache, row |-> db_session, msgs |-> messages,
             res |-> [SubmitResult(t, question_number) EXCEPT !.outcome = rd.outcome]]
       ELSE IF ~db_session.present
       THEN [cache |-> [cache EXCEPT !.answers = rd.state.answers],
             row |-> db_session, msgs |-> messages,
             res |-> [SubmitResult(t, question_number) EXCEPT !.outcome = "ValueError"]]
       ELSE submit_finish(t, rd, cache, db_session,
                          Append(messages, AnswerMessage(question_number, answer)),
                          question_number, c)

submit_answer(t, question_number, answer, c) ==
    /\ CountType(log[t], "answer") < MaxAnswerMsgs
    /\ \E e \in {submit_answer_effect(t, states[t], registry[t], log[t],
                                      question_number, answer, c)} :
          /\ states' = [states EXCEPT ![t] = e.cache]
          /\ registry' = [registry EXCEPT ![t] = e.row]
          /\ log' = [log EXCEPT ![t] = e.msgs]
          /\ lastResult' = e.res
    /\ UNCHANGED interview_sessions

\* ----------------------------------- api/interview.py: POST /interview/start
api_start_interview(t, gen) ==
    /\ ~registry[t].present
    /\ UNCHANGED <<states, log>>
    /\ LET res == [NoResult EXCEPT !.op = "start_interview", !.thread = t]
           questions == IF gen = "raise" THEN <<>> ELSE generate_question(gen)["question"]
       IN IF gen = "raise" \/ Len(questions) < 3
          THEN /\ lastResult' = [res EXCEPT !.outcome = "HTTP500"]
               /\ UNCHANGED <<registry, interview_sessions>>
          ELSE /\ registry' = [registry EXCEPT ![t] = NewRow("in_progress")]
               /\ interview_sessions' = [interview_sessions EXCEPT ![t] =
                                           [present |-> TRUE, questions |-> questions]]
               /\ lastResult' = [res EXCEPT !.outcome = "ok", !.questions = questions]

\* --------------------------- api/interview.py: POST /interview/submit-answers
AnswerLists == UNION {[1..n -> AnswerTexts] : n \in 2..3}

\* zip(answers, feedback_items): one answer and one feedback message per pair
RECURSIVE AnswerFeedbackMessages(_, _, _)
AnswerFeedbackMessages(answers, feedback_items, i) ==
    IF i > Min(Len(answers), Len(feedback_items)) THEN <<>>
    ELSE << ChatMessage("answer", "user", answers[i], i, NoneInt),
            ChatMessage("feedback", "assistant", feedback_items[i].feedback, i,
                        feedback_items[i].marks) >>
         \o AnswerFeedbackMessages(answers, feedback_items, i + 1)

RECURSIVE ZipMarks(_, _, _)
ZipMarks(answers, feedback_items, i) ==
    IF i > Min(Len(answers), Len(feedback_items)) THEN 0
    ELSE feedback_items[i].marks + ZipMarks(answers, feedback_items, i + 1)

\* submit_answers leaving the question messages to the start of the session
submit_answers_SkipsQuestions(t, answers, c) ==
    LET res == [NoResult EXCEPT !.op = "submit_answers", !.thread = t]
    IN
    /\ CountType(log[t], "answer") + 3 <= MaxAnswerMsgs
    /\ UNCHANGED states
    /\ IF ~registry[t].present
       THEN /\ lastResult' = [res EXCEPT !.outcome = "HTTP404"]
            /\ UNCHANGED <<registry, log, interview_sessions>>
       ELSE IF Len(answers) # 3
       THEN /\ lastResult' = [res EXCEPT !.outcome = "HTTP400"]
            /\ UNCHANGED <<registry, log, interview_sessions>>
       ELSE IF ~interview_sessions[t].present
       THEN /\ lastResult' = [res EXCEPT !.outcome = "HTTP404"]
            /\ UNCHANGED <<registry, log, interview_sessions>>
       ELSE LET questions == interview_sessions[t].questions
                feedback_items == feedback_generator(questions, answers, c.replies)
                roadmap == generate_roadmap(feedback_items, c.rm)
                total_score == ZipMarks(answers, feedback_items, 1)
                avg_score == IF Len(feedback_items) > 0
                             THEN [num |-> total_score, den |-> Len(feedback_items)]
                             ELSE ZeroScore
            IN /\ log' = [log EXCEPT ![t] =
                            @ \o AnswerFeedbackMessages(answers, feedback_items, 1)
                              \o <<ChatMessage("roadmap", "assistant", roadmap, NoneInt, NoneInt)>>]
               /\ registry' = [registry EXCEPT ![t].status = "completed",
                                               ![t].total_score = total_score,
                                               ![t].average_score = avg_score,
                                               ![t].completed_at = TRUE]
               /\ interview_sessions' = [interview_sessions EXCEPT ![t] = NoMem]
               /\ lastResult' = [res EXCEPT !.outcome = "ok",
                                            !.roadmap = roadmap,
                                            !.total_score = total_score,
                                            !.average_score = avg_score]

submit_answers(t, answers, c) ==
    LET res == [NoResult EXCEPT !.op = "submit_answers", !.thread = t]
    IN
    /\ CountType(log[t], "answer") + 3 <= MaxAnswerMsgs
    /\ UNCHANGED states
    /\ IF ~registry[t].present
       THEN /\ lastResult' = [res EXCEPT !.outcome = "HTTP404"]
            /\ UNCHANGED <<registry, log, interview_sessions>>
       ELSE IF Len(answers) # 3
       THEN /\ lastResult' = [res EXCEPT !.outcome = "HTTP400"]
            /\ UNCHANGED <<registry, log, interview_sessions>>
       ELSE IF ~interview_sessions[t].present
       THEN /\ lastResult' = [res EXCEPT !.outcome = "HTTP404"]
            /\ UNCHANGED <<registry, log, interview_sessions>>
       ELSE LET questions == interview_sessions[t].questions
                feedback_items == feedback_generator(questions, answers, c.replies)
                roadmap == generate_roadmap(feedback_items, c.rm)
                total_score == ZipMarks(answers, feedback_items, 1)
                avg_score == IF Len(feedback_items) > 0
                             THEN [num |-> total_score, den |-> Len(feedback_items)]
                             ELSE ZeroScore
            IN /\ log' = [log EXCEPT ![t] =
                            @ \o QuestionMessages(questions)
                              \o AnswerFeedbackMessages(answers, feedback_items, 1)
                              \o <<ChatMessage("roadmap", "assistant", roadmap, NoneInt, NoneInt)>>]
               /\ registry' = [registry EXCEPT ![t].status = "completed",
                                               ![t].total_score = total_score,
                                               ![t].average_score = avg_score,
                                               ![t].completed_at = TRUE]
               /\ interview_sessions' = [interview_sessions EXCEPT ![t] = NoMem]
               /\ lastResult' = [res EXCEPT !.outcome = "ok",
                                            !.roadmap = roadmap,
                                            !.total_score = total_score,
                                            !.average_score = avg_score]

\* ------------- api/interview_v2.py: GET /interview/v2/session/{id}/status
RECURSIVE CountNonEmpty(_)
CountNonEmpty(answers) ==
    IF Len(answers) = 0 THEN 0
    ELSE (IF answers[1] # "" THEN 1 ELSE 0) + CountNonEmpty(Tail(answers))

get_session_status(t) ==
    LET res == [NoResult EXCEPT !.op = "get_session_status", !.thread = t]
    IN
    /\ UNCHANGED <<states, registry, log, interview_sessions>>
    /\ IF ~registry[t].present
       THEN lastResult' = [res EXCEPT !.outcome = "HTTP500"]
       ELSE IF states[t].present
       THEN lastResult' = [res EXCEPT !.outcome = "ok",
                                      !.status = states[t].status,
                                      !.current_question = states[t].current_question,
                                      !.questions = states[t].questions,
                                      !.answers_submitted = CountNonEmpty(states[t].answers),
                                      !.total_score = states[t].total_score,
                                      !.average_score = states[t].average_score,
                                      !.completed = registry[t].completed_at]
       ELSE lastResult' = [res EXCEPT !.outcome = "ok",
                                      !.status = registry[t].status,
                                      !.total_score = registry[t].total_score,
                                      !.average_score = registry[t].average_score,
                                      !.completed = registry[t].completed_at]

\* -------- the worker process restarts: both process-local stores are lost
ProcessRestart ==
    /\ \E t \in Threads : states[t].present \/ interview_sessions[t].present
    /\ states' = [t \in Threads |-> NoState]
    /\ interview_sessions' = [t \in Threads |-> NoMem]
    /\ lastResult' = [NoResult EXCEPT !.op = "restart"]
    /\ UNCHANGED <<registry, log>>

\* ------------------------------------------ career_workflow.py: the graph
Assessments == {"a1", "a2"}

NoAssessment == [present |-> FALSE]

NoAssessmentResult == [present |-> FALSE]

\* a nullable JSON column
NoneJson == [none |-> TRUE, value |-> <<>>]

Json(value) == [none |-> FALSE, value |-> value]

\* the LLM answers of one run of the graph: the node whose call raises
\* ("none": no call raises), whether the replies parse as JSON, and the
\* score the parsed analyses carry
\* the nodes that call the LLM; the call is made before the node's try
LLMNodes ==
    {"generate_questions", "analyze_skills", "analyze_aptitude", "analyze_interests",
     "analyze_personality", "match_careers", "identify_gaps", "generate_recommendations"}

WorkflowRuns ==
    [raises : {"none"} \cup LLMNodes, parses : BOOLEAN, score : {8}]

CareerGeneratedQuestions == <<"g1", "g2", "g3", "g4", "g5", "g6">>

get_fallback_questions == <<"q1", "q2", "q3">>

career_initial_state ==
    [questions |-> <<>>, responses |-> <<>>, current_question |-> 0,
     skills_analysis |-> "", aptitude_analysis |-> "", interest_analysis |-> "",
     personality_analysis |-> "", skills_score |-> 0, aptitude_score |-> 0,
     interest_score |-> 0, overall_score |-> ZeroScore, career_matches |-> "",
     skills_gaps |-> "", recommendations |-> "", status |-> "started",
     completed_at |-> FALSE, chat_history |-> <<>>]

ChatEntry(content) == [role |-> "assistant", content |-> content]

start_assessment(state) ==
    [state EXCEPT !.status = "started", !.current_question = 0, !.questions = <<>>,
                  !.responses = <<>>, !.chat_history = <<ChatEntry("welcome")>>]

generate_questions(state, run) ==
    [state EXCEPT !.questions = IF run.parses THEN CareerGeneratedQuestions
                                ELSE get_fallback_questions]

process_responses(state) ==
    [state EXCEPT !.status = "processing",
                  !.chat_history = Append(@, ChatEntry("processing"))]

analyze_skills(state, run) ==
    [state EXCEPT !.skills_analysis = IF run.parses THEN "parsed" ELSE "error",
                  !.skills_score = IF run.parses THEN run.score ELSE 0]

analyze_aptitude(state, run) ==
    [state EXCEPT !.aptitude_analysis = IF run.parses THEN "parsed" ELSE "error",
                  !.aptitude_score = IF run.parses THEN run.score ELSE 0]

analyze_interests(state, run) ==
    [state EXCEPT !.interest_analysis = IF run.parses THEN "parsed" ELSE "error",
                  !.interest_score = IF run.parses THEN run.score ELSE 0]

analyze_personality(state, run) ==
    [state EXCEPT !.personality_analysis = IF run.parses THEN "parsed" ELSE "error"]

match_careers(state, run) ==
    [state EXCEPT !.career_matches = IF run.parses THEN "parsed" ELSE "empty"]

identify_gaps(state, run) ==
    [state EXCEPT !.skills_gaps = IF run.parses THEN "parsed" ELSE "error"]

generate_recommendations(state, run) ==
    [state EXCEPT !.recommendations = IF run.parses THEN "parsed" ELSE "error"]

complete_assessment(state) ==
    [state EXCEPT !.status = "completed", !.completed_at = TRUE,
                  !.overall_score = [num |-> state.skills_score + state.aptitude_score
                                              + state.interest_score,
                                     den |-> 3],
                  !.chat_history = Append(@, ChatEntry("completion"))]

\* the linear graph: entry point and edges, in order
CareerNodes ==
    <<"start_assessment", "generate_questions", "process_responses", "analyze_skills",
      "analyze_aptitude", "analyze_interests", "analyze_personality", "match_careers",
      "identify_gaps", "generate_recommendations", "complete_assessment">>

career_node(node, state, run) ==
    CASE node = "start_assessment" -> start_assessment(state)
      [] node = "generate_questions" -> generate_questions(state, run)
      [] node = "process_responses" -> process_responses(state)
      [] node = "analyze_skills" -> analyze_skills(state, run)
      [] node = "analyze_aptitude" -> analyze_aptitude(state, run)
      [] node = "analyze_interests" -> analyze_interests(state, run)
      [] node = "analyze_personality" -> analyze_personality(state, run)
      [] node = "match_careers" -> match_careers(state, run)
      [] node = "identify_gaps" -> identify_gaps(state, run)
      [] node = "generate_recommendations" -> generate_recommendations(state, run)
      [] OTHER -> complete_assessment(state)

\* graph.ainvoke: every node runs in the one invocation; an LLM call that
\* raises aborts it
RECURSIVE career_run_from(_, _, _)
career_run_from(i, state, run) ==
    IF i > Len(CareerNodes) THEN [err |-> FALSE, st |-> state]
    ELSE IF CareerNodes[i] = run.raises THEN [err |-> TRUE, st |-> state]
    ELSE career_run_from(i + 1, career_node(CareerNodes[i], state, run), run)

career_graph_ainvoke(state, run) == career_run_from(1, state, run)

\* ------------------------------------------------- api/assessment.py
NewAssessment ==
    [present |-> TRUE, status |-> "active", skills_score |-> 0, aptitude_score |-> 0,
     interest_score |-> 0, overall_score |-> 0, responses |-> NoneJson,
     analysis_results |-> NoneJson, completed_at |-> FALSE]

AssessmentMessage(message_type, role, content) ==
    [message_type |-> message_type, role |-> role, content |-> content]

AssessmentResponse(op, a, outcome) ==
    [op |-> op, assessment |-> a, outcome |-> outcome, status |-> "", body |-> ""]

\* POST /assessment/start
start_career_assessment(a, run) ==
    /\ ~assessments[a].present
    /\ assessments' = [assessments EXCEPT ![a] = NewAssessment]
    /\ UNCHANGED assessment_results
    /\ LET r == career_graph_ainvoke(career_initial_state, run)
       IN IF r.err
          THEN \* the fallback questions are taken, then `result` is unbound
               /\ UNCHANGED assessment_messages
               /\ lastResult' = AssessmentResponse("start_career_assessment", a, "HTTP500")
          ELSE /\ assessment_messages' = [assessment_messages EXCEPT ![a] =
                     @ \o [i \in 1..Len(r.st.chat_history) |->
                             AssessmentMessage("system", r.st.chat_history[i].role,
                                               r.st.chat_history[i].content)]]
               /\ lastResult' =
                     [AssessmentResponse("start_career_assessment", a, "ok") EXCEPT
                        !.status = "active",
                        !.body = [questions |-> SubSeq(r.st.questions, 1,
                                                       Min(5, Len(r.st.questions))),
                                  total_questions |-> Len(r.st.questions)]]

ResponseLists == {<<>>, <<"r1">>, <<"r1", "r2">>}

\* POST /assessment/submit-responses without the check of the row's status
submit_assessment_responses_NoStatusCheck(a, responses) ==
    /\ IF ~assessments[a].present
       THEN /\ lastResult' = AssessmentResponse("submit_assessment_responses", a, "HTTP404")
            /\ UNCHANGED <<assessments, assessment_messages, assessment_results>>
       ELSE IF assessment_results[a].present
       THEN \* assessment_results.assessment_id is unique: the commit fails
            \* and everything of the call is rolled back
            /\ lastResult' = AssessmentResponse("submit_assessment_responses", a, "HTTP500")
            /\ UNCHANGED <<assessments, assessment_messages, assessment_results>>
       ELSE /\ assessment_messages' = [assessment_messages EXCEPT ![a] =
                  @ \o [i \in 1..Len(responses) |->
                          AssessmentMessage("answer", "user", responses[i])]]
            /\ assessment_results' = [assessment_results EXCEPT ![a] =
                  [present |-> TRUE, processing_status |-> "completed",
                   total_questions |-> Len(responses), user_responses |-> responses]]
            /\ assessments' = [assessments EXCEPT ![a] =
                  [@ EXCEPT !.status = "completed", !.responses = Json(responses),
                            !.completed_at = TRUE, !.overall_score = 75,
                            !.skills_score = 70, !.aptitude_score = 80,
                            !.interest_score = 75]]
            /\ lastResult' =
                  [AssessmentResponse("submit_assessment_responses", a, "ok") EXCEPT
                     !.status = "completed",
                     !.body = [overall_score |-> 75, total_questions |-> Len(responses)]]

\* POST /assessment/submit-responses
submit_assessment_responses(a, responses) ==
    /\ IF ~assessments[a].present
       THEN /\ lastResult' = AssessmentResponse("submit_assessment_responses", a, "HTTP404")
            /\ UNCHANGED <<assessments, assessment_messages, assessment_results>>
       ELSE IF assessments[a].status # "active"
       THEN /\ lastResult' = AssessmentResponse("submit_assessment_responses", a, "HTTP422")
            /\ UNCHANGED <<assessments, assessment_messages, assessment_results>>
       ELSE IF assessment_results[a].present
       THEN \* assessment_results.assessment_id is unique: the commit fails
            \* and everything of the call is rolled back
            /\ lastResult' = AssessmentResponse("submit_assessment_responses", a, "HTTP500")
            /\ UNCHANGED <<assessments, assessment_messages, assessment_results>>
       ELSE /\ assessment_messages' = [assessment_messages EXCEPT ![a] =
                  @ \o [i \in 1..Len(responses) |->
                          AssessmentMessage("answer", "user", responses[i])]]
            /\ assessment_results' = [assessment_results EXCEPT ![a] =
                  [present |-> TRUE, processing_status |-> "completed",
                   total_questions |-> Len(responses), user_responses |-> responses]]
            /\ assessments' = [assessments EXCEPT ![a] =
                  [@ EXCEPT !.status = "completed", !.responses = Json(responses),
                            !.completed_at = TRUE, !.overall_score = 75,
                            !.skills_score = 70, !.aptitude_score = 80,
                            !.interest_score = 75]]
            /\ lastResult' =
                  [AssessmentResponse("submit_assessment_responses", a, "ok") EXCEPT
                     !.status = "completed",
                     !.body = [overall_score |-> 75, total_questions |-> Len(responses)]]

\* GET /assessment/results/{id}: what the handler returns for a row
assessment_results_view(assessment) ==
    IF assessment.status \notin {"completed", "processing"}
    THEN [status |-> assessment.status, message |-> "Assessment is not completed yet"]
    ELSE [status |-> assessment.status,
          scores |-> [skills_score |-> assessment.skills_score,
                      aptitude_score |-> assessment.aptitude_score,
                      interest_score |-> assessment.interest_score,
                      overall_score |-> assessment.overall_score],
          assessment_results |-> IF assessment.analysis_results.none THEN <<>>
                                 ELSE assessment.analysis_results.value,
          completed_at |-> assessment.completed_at]

get_assessment_results(a) ==
    /\ UNCHANGED <<assessments, assessment_messages, assessment_results>>
    /\ IF ~assessments[a].present
       THEN lastResult' = AssessmentResponse("get_assessment_results", a, "HTTP404")
       ELSE lastResult' = [AssessmentResponse("get_assessment_results", a, "ok") EXCEPT
                             !.status = assessments[a].status,
                             !.body = assessment_results_view(assessments[a])]

\* GET /assessment/history: the summary of one row
AssessmentSummaryResponse(assessment) ==
    [status |-> assessment.status, skills_score |-> assessment.skills_score,
     aptitude_score |-> assessment.aptitude_score,
     interest_score |-> assessment.interest_score,
     overall_score |-> assessment.overall_score,
     completed_at |-> assessment.completed_at]

get_assessment_history ==
    /\ UNCHANGED <<assessments, assessment_messages, assessment_results>>
    /\ lastResult' =
          [AssessmentResponse("get_assessment_history", "", "ok") EXCEPT
             !.body = [a \in {x \in Assessments : assessments[x].present} |->
                         AssessmentSummaryResponse(assessments[a])]]

\* restart_assessment that leaves the scores of the previous run in the row
reset_assessment_KeepScores(assessment) ==
    [assessment EXCEPT !.status = "active", !.responses = NoneJson,
                       !.analysis_results = NoneJson, !.completed_at = FALSE]

\* restart_assessment resetting the three part scores but not overall_score
reset_assessment_KeepsOverall(assessment) ==
    [assessment EXCEPT !.status = "active", !.skills_score = 0, !.aptitude_score = 0,
                       !.interest_score = 0,
                       !.responses = NoneJson, !.analysis_results = NoneJson,
                       !.completed_at = FALSE]

\* POST /assessment/restart/{id}: the row after the reset
reset_assessment(assessment) ==
    [assessment EXCEPT !.status = "active", !.skills_score = 0, !.aptitude_score = 0,
                       !.interest_score = 0, !.overall_score = 0,
                       !.responses = NoneJson, !.analysis_results = NoneJson,
                       !.completed_at = FALSE]

restart_assessment(a) ==
    /\ UNCHANGED assessment_results
    /\ IF ~assessments[a].present
       THEN /\ lastResult' = AssessmentResponse("restart_assessment", a, "HTTP404")
            /\ UNCHANGED <<assessments, assessment_messages>>
       ELSE /\ assessments' = [assessments EXCEPT ![a] = reset_assessment(@)]
            /\ assessment_messages' = [assessment_messages EXCEPT ![a] = <<>>]
            /\ lastResult' = [AssessmentResponse("restart_assessment", a, "ok") EXCEPT
                                !.body = "Assessment restarted successfully"]

\* what the calls on assessments leave alone
assessment_frame ==
    UNCHANGED <<states, peer_states, registry, log, interview_sessions, roadmaps, race>>

StartCareerAssessment ==
    /\ \E a \in Assessments, run \in WorkflowRuns : start_career_assessment(a, run)
    /\ assessment_frame

SubmitAssessmentResponses ==
    /\ \E a \in Assessments, responses \in ResponseLists :
          submit_assessment_responses(a, responses)
    /\ assessment_frame

GetAssessmentResults ==
    /\ \E a \in Assessments : get_assessment_results(a)
    /\ assessment_frame

GetAssessmentHistory ==
    /\ get_assessment_history
    /\ assessment_frame

RestartAssessment ==
    /\ \E a \in Assessments : restart_assessment(a)
    /\ assessment_frame

\* ------------------------------------------------ calls of /interview
\* what the calls on interview sessions in this worker leave alone
interview_frame ==
    UNCHANGED <<peer_states, assessments, assessment_messages, assessment_results, roadmaps, race>>

CreateInterviewSession ==
    /\ \E t \in Threads : \E c \in Collaborators(initial_state) : create_interview_session(t, c)
    /\ interview_frame

\* the state submit_answer hands to the graph (NoState when it raises before)
SubmittedState(t, question_number, answer) ==
    submit_read(states[t], registry[t], log[t], question_number, answer).state

SubmitAnswer ==
    /\ \E t \in Threads, question_number \in QuestionNumbers, answer \in AnswerTexts :
          LET sub == SubmittedState(t, question_number, answer)
          IN \E c \in (IF sub.present THEN Collaborators(sub)
                        ELSE {[gen |-> "ok", replies |-> DefaultReplies, rm |-> "ok"]}) :
                submit_answer(t, question_number, answer, c)
    /\ interview_frame

ApiStartInterview ==
    /\ \E t \in Threads, gen \in GenOutcomes : api_start_interview(t, gen)
    /\ interview_frame

ApiSubmitAnswers ==
    /\ \E t \in Threads, answers \in AnswerLists, c \in DirectCollaborators :
          submit_answers(t, answers, c)
    /\ interview_frame

GetSessionStatus ==
    /\ \E t \in Threads : get_session_status(t)
    /\ interview_frame

WorkerRestart ==
    /\ ProcessRestart
    /\ interview_frame

\* ------------------- two worker processes serving the same session
\* Every handler of interview_v2.py is a coroutine that never awaits, so one
\* worker runs its calls one at a time.  Two calls are in flight together
\* only in two workers: each has its own InterviewStateManager.states, both
\* share the database, and their database steps interleave.
Workers == {1, 2}

\* answers submitted to the session before the two calls race
MaxRacePrefix == 1

RaceQuestionNumbers == {0, 1, 2}

RaceGenOutcomes == {"ok", "raise"}

RaceAnswer(w) == IF w = 1 THEN "a" ELSE "b"

WorkerCache(w, t) == IF w = 1 THEN states[t] ELSE peer_states[t]

NoRead == [outcome |-> "", cached |-> FALSE, state |-> NoState]

OtherWorker(w) == CHOOSE v \in Workers : v # w

\* worker w takes a step while the call of the other worker is under way
Overlaps(w) ==
    race.overlap \/ race.calls[OtherWorker(w)].pc \in {"append", "finish"}

\* a whole call of submit_answer in the second worker
peer_submit_answer(t, question_number, answer, c) ==
    /\ CountType(log[t], "answer") < MaxAnswerMsgs
    /\ \E e \in {submit_answer_effect(t, peer_states[t], registry[t], log[t],
                                      question_number, answer, c)} :
          /\ peer_states' = [peer_states EXCEPT ![t] = e.cache]
          /\ registry' = [registry EXCEPT ![t] = e.row]
          /\ log' = [log EXCEPT ![t] = e.msgs]
          /\ lastResult' = e.res
    /\ UNCHANGED <<states, interview_sessions>>

\* both workers receive a submit_answer request for the session
race_begin(t, question_numbers, gens) ==
    /\ ~race.active
    /\ race' = [active |-> TRUE, thread |-> t, overlap |-> FALSE,
                pre |-> [cache |-> [w \in Workers |-> WorkerCache(w, t)],
                         registry |-> registry[t], log |-> log[t]],
                calls |-> [w \in Workers |->
                             [pc |-> "read", question_number |-> question_numbers[w],
                              answer |-> RaceAnswer(w),
                              c |-> [gen |-> gens[w], replies |-> DefaultReplies,
                                     rm |-> "ok"],
                              rd |-> NoRead, res |-> NoResult]]]
    /\ UNCHANGED <<states, peer_states, registry, log, interview_sessions, lastResult>>

SetCache(w, t, cache) ==
    /\ states' = IF w = 1 THEN [states EXCEPT ![t] = cache] ELSE states
    /\ peer_states' = IF w = 2 THEN [peer_states EXCEPT ![t] = cache] ELSE peer_states

\* lines 390-408 in worker w: the state is read and the answer written into it
race_read(w) ==
    LET call == race.calls[w]
        t == race.thread
    IN /\ call.pc = "read"
       /\ \E rd \in {submit_read(WorkerCache(w, t), registry[t], log[t],
                                 call.question_number, call.answer)} :
          IF rd.outcome # "go"
          THEN /\ race' = [race EXCEPT !.overlap = Overlaps(w), !.calls[w].pc = "done",
                                       !.calls[w].res =
                                           [SubmitResult(t, call.question_number) EXCEPT
                                              !.outcome = rd.outcome]]
               /\ UNCHANGED <<states, peer_states>>
          ELSE /\ race' = [race EXCEPT !.overlap = Overlaps(w), !.calls[w].pc = "append",
                                       !.calls[w].rd = rd]
               /\ SetCache(w, t, IF rd.cached
                                 THEN [WorkerCache(w, t) EXCEPT !.answers = rd.state.answers]
                                 ELSE WorkerCache(w, t))
       /\ UNCHANGED <<registry, log, interview_sessions, lastResult>>

\* lines 410-428 in worker w: the row is read and the answer message committed
race_append(w) ==
    LET call == race.calls[w]
        t == race.thread
    IN /\ call.pc = "append"
       /\ IF ~registry[t].present
          THEN /\ race' = [race EXCEPT !.overlap = Overlaps(w), !.calls[w].pc = "done",
                                       !.calls[w].res =
                                           [SubmitResult(t, call.question_number) EXCEPT
                                              !.outcome = "ValueError"]]
               /\ UNCHANGED log
          ELSE /\ race' = [race EXCEPT !.overlap = Overlaps(w), !.calls[w].pc = "finish"]
               /\ log' = [log EXCEPT ![t] =
                            Append(@, AnswerMessage(call.question_number, call.answer))]
       /\ UNCHANGED <<states, peer_states, registry, interview_sessions, lastResult>>

\* lines 430-485 in worker w: the graph runs, the result is cached and the
\* rest is committed
race_finish(w) ==
    LET call == race.calls[w]
        t == race.thread
    IN /\ call.pc = "finish"
       /\ \E e \in {submit_finish(t, call.rd, WorkerCache(w, t), registry[t], log[t],
                                   call.question_number, call.c)} :
             /\ race' = [race EXCEPT !.overlap = Overlaps(w), !.calls[w].pc = "done",
                                     !.calls[w].res = e.res]
             /\ SetCache(w, t, e.cache)
             /\ registry' = [registry EXCEPT ![t] = e.row]
             /\ log' = [log EXCEPT ![t] = e.msgs]
       /\ UNCHANGED <<interview_sessions, lastResult>>

\* what the calls of the two workers leave alone
race_frame == UNCHANGED <<assessments, assessment_messages, assessment_results, roadmaps>>

RaceCreateInterviewSession ==
    /\ ~race.active
    /\ CreateInterviewSession

PeerSubmitAnswer ==
    /\ ~race.active
    /\ \E t \in Threads, question_number \in RaceQuestionNumbers,
          gen \in RaceGenOutcomes :
          /\ CountType(log[t], "answer") < MaxRacePrefix
          /\ peer_submit_answer(t, question_number, "b",
                                [gen |-> gen, replies |-> DefaultReplies, rm |-> "ok"])
    /\ UNCHANGED race
    /\ race_frame

RaceSubmitAnswer ==
    /\ ~race.active
    /\ \E t \in Threads, question_number \in RaceQuestionNumbers,
          gen \in RaceGenOutcomes :
          /\ CountType(log[t], "answer") < MaxRacePrefix
          /\ submit_answer(t, question_number, "a",
                           [gen |-> gen, replies |-> DefaultReplies, rm |-> "ok"])
    /\ interview_frame

RaceWorkerRestart ==
    /\ ~race.active
    /\ WorkerRestart

RaceBegin ==
    /\ \E t \in Threads, question_numbers \in [Workers -> RaceQuestionNumbers],
          gens \in [Workers -> RaceGenOutcomes] :
          race_begin(t, question_numbers, gens)
    /\ race_frame

RaceRead ==
    /\ race.active
    /\ \E w \in Workers : race_read(w)
    /\ race_frame

RaceAppend ==
    /\ race.active
    /\ \E w \in Workers : race_append(w)
    /\ race_frame

RaceFinish ==
    /\ race.active
    /\ \E w \in Workers : race_finish(w)
    /\ race_frame

\* ------------------------------------------- api/roadmap_new.py
Roadmaps == {"r1", "r2"}

Users == {"u1", "u2"}

\* steps a generated roadmap may have
MaxSteps == 2

NoRoadmap == [present |-> FALSE]

RoadmapResponse(op, r, u, outcome) ==
    [op |-> op, roadmap |-> r, user |-> u, outcome |-> outcome,
     completed_steps |-> 0, total_steps |-> 0, progress_percentage |-> ZeroScore]

\* RoadmapCheckpoint rows with is_completed == True
RECURSIVE CountCompleted(_)
CountCompleted(checkpoints) ==
    IF Len(checkpoints) = 0 THEN 0
    ELSE (IF checkpoints[1] THEN 1 ELSE 0) + CountCompleted(Tail(checkpoints))

\* POST /roadmap/generate-from-recommendation: the LearningRoadmap row and,
\* by _create_roadmap_checkpoints, one RoadmapCheckpoint per step
generate_roadmap_from_recommendation(r, u, total_steps) ==
    /\ ~roadmaps[r].present
    /\ roadmaps' = [roadmaps EXCEPT ![r] =
          [present |-> TRUE, user_id |-> u, is_active |-> TRUE,
           total_steps |-> total_steps, completed_steps |-> 0,
           progress_percentage |-> ZeroScore,
           checkpoints |-> [i \in 1..total_steps |-> FALSE]]]
    /\ lastResult' = [RoadmapResponse("generate_roadmap_from_recommendation", r, u, "ok")
                        EXCEPT !.total_steps = total_steps]

\* POST /roadmap/update-progress.  The checkpoint is looked up by roadmap_id
\* and step alone; the roadmap row is looked up with the caller's user_id.
\* The session is made with autoflush=False (database.py:24), so the count
\* query reads the checkpoints as they were before this call marked its own;
\* the commit then writes both.  The 404 is raised inside the try and leaves
\* as a 500.
update_step_progress(r, u, step) ==
    LET op == "update_step_progress"
    IN IF ~roadmaps[r].present \/ step \notin DOMAIN roadmaps[r].checkpoints
       THEN /\ lastResult' = RoadmapResponse(op, r, u, "HTTP500")
            /\ UNCHANGED roadmaps
       ELSE \E checked \in {[roadmaps[r] EXCEPT !.checkpoints[step] = TRUE]} :
               IF checked.user_id = u
               THEN \E completed_count \in {CountCompleted(roadmaps[r].checkpoints)} :
                       \E roadmap \in {[checked EXCEPT
                                          !.completed_steps = completed_count,
                                          !.progress_percentage =
                                             IF checked.total_steps > 0
                                             THEN [num |-> completed_count * 100,
                                                   den |-> checked.total_steps]
                                             ELSE ZeroScore]} :
                          /\ roadmaps' = [roadmaps EXCEPT ![r] = roadmap]
                          /\ lastResult' = [RoadmapResponse(op, r, u, "ok") EXCEPT
                                              !.completed_steps = roadmap.completed_steps,
                                              !.total_steps = roadmap.total_steps,
                                              !.progress_percentage =
                                                 roadmap.progress_percentage]
               ELSE /\ roadmaps' = [roadmaps EXCEPT ![r] = checked]
                    /\ lastResult' = RoadmapResponse(op, r, u, "ok")

\* what the calls on roadmaps leave alone
roadmap_frame ==
    UNCHANGED <<states, peer_states, registry, log, interview_sessions,
                assessments, assessment_messages, assessment_results, race>>

GenerateRoadmapFromRecommendation ==
    /\ \E r \in Roadmaps, u \in Users, total_steps \in 1..MaxSteps :
          generate_roadmap_from_recommendation(r, u, total_steps)
    /\ roadmap_frame

UpdateStepProgress ==
    /\ \E r \in Roadmaps, u \in Users, step \in 1..(MaxSteps + 1) :
          update_step_progress(r, u, step)
    /\ roadmap_frame

\* ------------------------------------------------------------------- Init
Init ==
    /\ states = [t \in Threads |-> NoState]
    /\ peer_states = [t \in Threads |-> NoState]
    /\ registry = [t \in Threads |-> NoRow]
    /\ log = [t \in Threads |-> <<>>]
    /\ interview_sessions = [t \in Threads |-> NoMem]
    /\ assessments = [a \in Assessments |-> NoAssessment]
    /\ assessment_messages = [a \in Assessments |-> <<>>]
    /\ assessment_results = [a \in Assessments |-> NoAssessmentResult]
    /\ roadmaps = [r \in Roadmaps |-> NoRoadmap]
    /\ race = NoRace
    /\ lastResult = NoResult

\* ------------------------------------------------- the specifications
Next ==
    \/ CreateInterviewSession
    \/ SubmitAnswer
    \/ ApiStartInterview
    \/ ApiSubmitAnswers
    \/ GetSessionStatus
    \/ WorkerRestart

Spec == Init /\ [][Next]_vars

NextAssess ==
    \/ StartCareerAssessment
    \/ SubmitAssessmentResponses
    \/ GetAssessmentResults
    \/ GetAssessmentHistory
    \/ RestartAssessment

SpecAssess == Init /\ [][NextAssess]_vars

NextRace ==
    \/ RaceCreateInterviewSession
    \/ RaceSubmitAnswer
    \/ PeerSubmitAnswer
    \/ RaceWorkerRestart
    \/ RaceBegin
    \/ RaceRead
    \/ RaceAppend
    \/ RaceFinish

SpecRace == Init /\ [][NextRace]_vars

\* ------------- _load_state_from_db on any registry row and ordered log
\* messages of a log handed to _load_state_from_db
MaxLogLen == 3

LogMessages ==
    {ChatMessage("question", "assistant", "q", 1, NoneInt),
     ChatMessage("answer", "user", "a", 1, NoneInt),
     ChatMessage("answer", "user", "b", 2, NoneInt),
     ChatMessage("answer", "user", "c", 1, NoneInt),
     ChatMessage("feedback", "assistant", "f", 1, 7),
     ChatMessage("feedback", "assistant", "f", 1, NoneInt),
     ChatMessage("roadmap", "assistant", "r", NoneInt, NoneInt)}

Logs == UNION {[1..n -> LogMessages] : n \in 0..MaxLogLen}

Rows ==
    {NoRow, NewRow("active"),
     [NewRow("completed") EXCEPT !.total_score = 21,
                                 !.average_score = [num |-> 21, den |-> 3],
                                 !.completed_at = TRUE]}

InitFold ==
    /\ registry \in [Threads -> Rows]
    /\ log \in [Threads -> Logs]
    /\ states = [t \in Threads |-> NoState]
    /\ peer_states = [t \in Threads |-> NoState]
    /\ interview_sessions = [t \in Threads |-> NoMem]
    /\ assessments = [a \in Assessments |-> NoAssessment]
    /\ assessment_messages = [a \in Assessments |-> <<>>]
    /\ assessment_results = [a \in Assessments |-> NoAssessmentResult]
    /\ roadmaps = [r \in Roadmaps |-> NoRoadmap]
    /\ race = NoRace
    /\ lastResult = NoResult

\* a caller of _load_state_from_db that keeps what the call before returned
LoadStateFromDb ==
    /\ \E t \in Threads :
          lastResult' =
             [op |-> "_load_state_from_db", thread |-> t,
              state |-> load_state_from_db(registry[t], log[t]),
              again |-> lastResult.op = "_load_state_from_db" /\ lastResult.thread = t,
              before |-> IF lastResult.op = "_load_state_from_db"
                         THEN lastResult.state ELSE NoState]
    /\ UNCHANGED <<states, peer_states, registry, log, interview_sessions,
                   assessments, assessment_messages, assessment_results, roadmaps, race>>

NextFold == LoadStateFromDb

SpecFold == InitFold /\ [][NextFold]_vars

\* ----------------------------------- state_manager.py: get_chat_history
\* get_chat_history deleting the messages it has handed out
get_chat_history_Consumes(t) ==
    /\ UNCHANGED <<states, registry, interview_sessions>>
    /\ log' = [log EXCEPT ![t] = <<>>]
    /\ lastResult' = [op |-> "get_chat_history", thread |-> t,
                      outcome |-> IF registry[t].present THEN "ok" ELSE "ValueError",
                      messages |-> log[t]]

get_chat_history(t) ==
    /\ UNCHANGED <<states, registry, log, interview_sessions>>
    /\ IF ~registry[t].present
       THEN lastResult' = [op |-> "get_chat_history", thread |-> t,
                           outcome |-> "ValueError", messages |-> <<>>]
       ELSE lastResult' = [op |-> "get_chat_history", thread |-> t, outcome |-> "ok",
                           status |-> registry[t].status,
                           total_score |-> registry[t].total_score,
                           average_score |-> registry[t].average_score,
                           completed_at |-> registry[t].completed_at,
                           messages |-> log[t]]

GetChatHistory ==
    /\ \E t \in Threads : get_chat_history(t)
    /\ interview_frame

\* the operations of InterviewStateManager on a session's log
NextLog ==
    \/ CreateInterviewSession
    \/ SubmitAnswer
    \/ GetChatHistory
    \/ GetSessionStatus
    \/ WorkerRestart

SpecLog == Init /\ [][NextLog]_vars

\* --------------- feedback_generator on any questions, answers and replies
\* A call holds the state handed to feedback_generator and the replies that
\* feedback_llm gives to its three calls; the result holds its feedback list.
\* replies of feedback_llm: a raise, a score in range, scores out of range on
\* both sides, no "Score:" token, a token that is no integer, and a reply
\* with a score and no feedback text
FeedbackLLMReplies ==
    {LLMRaise,
     LLMReply("good answer", TRUE, TRUE, 7),
     LLMReply("good answer", TRUE, TRUE, 15),
     LLMReply("good answer", TRUE, TRUE, -3),
     LLMReply("good answer", FALSE, FALSE, 0),
     LLMReply("good answer", TRUE, FALSE, 0),
     LLMReply("", TRUE, TRUE, 7)}

FeedbackQuestions ==
    {<<>>, <<"q", "q">>, <<"q", "q", "q">>, <<"", "q", "q">>, <<"q", "q", "q", "q">>}

FeedbackAnswers ==
    [1..3 -> {"", "a", "[No answer provided]"}] \cup {<<>>, <<"a", "a">>}

FeedbackCalls ==
    [op : {"call"}, question : FeedbackQuestions, answer : FeedbackAnswers,
     replies : [1..3 -> FeedbackLLMReplies], feedback : {<<>>}]

InitFeedback ==
    /\ states = [t \in Threads |-> NoState]
    /\ peer_states = [t \in Threads |-> NoState]
    /\ registry = [t \in Threads |-> NoRow]
    /\ log = [t \in Threads |-> <<>>]
    /\ interview_sessions = [t \in Threads |-> NoMem]
    /\ assessments = [a \in Assessments |-> NoAssessment]
    /\ assessment_messages = [a \in Assessments |-> <<>>]
    /\ assessment_results = [a \in Assessments |-> NoAssessmentResult]
    /\ roadmaps = [r \in Roadmaps |-> NoRoadmap]
    /\ race = NoRace
    /\ lastResult \in FeedbackCalls

FeedbackGenerator ==
    /\ lastResult.op = "call"
    /\ lastResult' = [lastResult EXCEPT
                        !.op = "feedback_generator",
                        !.feedback = feedback_generator(lastResult.question,
                                                        lastResult.answer,
                                                        lastResult.replies)]
    /\ UNCHANGED <<states, peer_states, registry, log, interview_sessions,
                   assessments, assessment_messages, assessment_results, roadmaps, race>>

NextFeedback == FeedbackGenerator

SpecFeedback == InitFeedback /\ [][NextFeedback]_vars

\* ------------------- generate_roadmap on any feedback list and any reply
\* feedback items a state handed to generate_roadmap may hold
MaxFeedbackItems == 3

FeedbackItems ==
    {[feedback |-> "good answer", marks |-> 10],
     [feedback |-> "An error occurred while generating feedback.", marks |-> 5],
     [feedback |-> "No answer was provided for this question.", marks |-> 0],
     [feedback |-> "Not enough questions or answers to generate feedback.", marks |-> 0]}

RoadmapCalls ==
    [op : {"call"},
     feedback : UNION {[1..n -> FeedbackItems] : n \in 0..MaxFeedbackItems},
     rm : RoadmapOutcomes, roadmap : {""}]

InitRoadmap ==
    /\ states = [t \in Threads |-> NoState]
    /\ peer_states = [t \in Threads |-> NoState]
    /\ registry = [t \in Threads |-> NoRow]
    /\ log = [t \in Threads |-> <<>>]
    /\ interview_sessions = [t \in Threads |-> NoMem]
    /\ assessments = [a \in Assessments |-> NoAssessment]
    /\ assessment_messages = [a \in Assessments |-> <<>>]
    /\ assessment_results = [a \in Assessments |-> NoAssessmentResult]
    /\ roadmaps = [r \in Roadmaps |-> NoRoadmap]
    /\ race = NoRace
    /\ lastResult \in RoadmapCalls

GenerateRoadmap ==
    /\ lastResult.op = "call"
    /\ lastResult' = [lastResult EXCEPT
                        !.op = "generate_roadmap",
                        !.roadmap = generate_roadmap(lastResult.feedback, lastResult.rm)]
    /\ UNCHANGED <<states, peer_states, registry, log, interview_sessions,
                   assessments, assessment_messages, assessment_results, roadmaps, race>>

NextRoadmap == GenerateRoadmap

SpecRoadmap == InitRoadmap /\ [][NextRoadmap]_vars

\* -------------------- career_workflow.graph.ainvoke on any run of the LLM
AnalysisScores == {0, 8, 50, 100}

WorkflowCalls ==
    [op : {"call"},
     run : [raises : {"none"} \cup LLMNodes, parses : BOOLEAN, score : AnalysisScores],
     err : {FALSE}, st : {career_initial_state}]

InitWorkflow ==
    /\ states = [t \in Threads |-> NoState]
    /\ peer_states = [t \in Threads |-> NoState]
    /\ registry = [t \in Threads |-> NoRow]
    /\ log = [t \in Threads |-> <<>>]
    /\ interview_sessions = [t \in Threads |-> NoMem]
    /\ assessments = [a \in Assessments |-> NoAssessment]
    /\ assessment_messages = [a \in Assessments |-> <<>>]
    /\ assessment_results = [a \in Assessments |-> NoAssessmentResult]
    /\ roadmaps = [r \in Roadmaps |-> NoRoadmap]
    /\ race = NoRace
    /\ lastResult \in WorkflowCalls

CareerGraphAinvoke ==
    /\ lastResult.op = "call"
    /\ \E r \in {career_graph_ainvoke(lastResult.st, lastResult.run)} :
          lastResult' = [lastResult EXCEPT !.op = "career_graph_ainvoke",
                                           !.err = r.err, !.st = r.st]
    /\ UNCHANGED <<states, peer_states, registry, log, interview_sessions,
                   assessments, assessment_messages, assessment_results, roadmaps, race>>

NextWorkflow == CareerGraphAinvoke

SpecWorkflow == InitWorkflow /\ [][NextWorkflow]_vars

\* ------------- should_continue and the edges of the graph on any state
\* answers a state handed to should_continue may hold
MaxRouteAnswers == 4

GraphNodes == {"start_interview", "process_answer", "generate_feedback", "generate_roadmap"}

RouteFeedback ==
    {<<>>,
     << [feedback |-> "Not enough questions or answers to generate feedback.", marks |-> 0] >>,
     [i \in 1..3 |-> [feedback |-> "good answer", marks |-> 9]]}

RouteStates ==
    {[initial_state EXCEPT !.answers = [i \in 1..n |-> "a"],
                           !.feedback = feedback,
                           !.roadmap = roadmap] :
       n \in 0..MaxRouteAnswers, feedback \in RouteFeedback,
       roadmap \in {"", "roadmap text"}}

\* where the graph goes after `node` has returned `state`: the node named
\* by the edge, "END", or "KeyError" when the routing key has no edge
next_node(node, state) ==
    IF node = "generate_roadmap" THEN "END"
    ELSE IF should_continue(state) \in DOMAIN GraphEdges[node]
    THEN GraphEdges[node][should_continue(state)]
    ELSE "KeyError"

RouteCalls ==
    [op : {"call"}, node : GraphNodes, state : RouteStates, key : {""}, next : {""}]

InitRoute ==
    /\ states = [t \in Threads |-> NoState]
    /\ peer_states = [t \in Threads |-> NoState]
    /\ registry = [t \in Threads |-> NoRow]
    /\ log = [t \in Threads |-> <<>>]
    /\ interview_sessions = [t \in Threads |-> NoMem]
    /\ assessments = [a \in Assessments |-> NoAssessment]
    /\ assessment_messages = [a \in Assessments |-> <<>>]
    /\ assessment_results = [a \in Assessments |-> NoAssessmentResult]
    /\ roadmaps = [r \in Roadmaps |-> NoRoadmap]
    /\ race = NoRace
    /\ lastResult \in RouteCalls

ShouldContinue ==
    /\ lastResult.op = "call"
    /\ lastResult' = [lastResult EXCEPT
                        !.op = "should_continue",
                        !.key = should_continue(lastResult.state),
                        !.next = next_node(lastResult.node, lastResult.state)]
    /\ UNCHANGED <<states, peer_states, registry, log, interview_sessions,
                   assessments, assessment_messages, assessment_results, roadmaps, race>>

NextRoute == ShouldContinue

SpecRoute == InitRoute /\ [][NextRoute]_vars

\* --------- create_interview_session and submit_answer, one step at a time
\* One worker runs one call; the call is cut at its commits and at its cache
\* write, and the process may die, or a commit may fail, between two steps.
StepCollaborators == [gen : GenOutcomes, replies : {DefaultReplies}, rm : {"ok"}]

\* lines 318-332: the registry row is committed
create_commit_row(t, c) ==
    /\ ~race.active
    /\ ~registry[t].present
    /\ registry' = [registry EXCEPT ![t] = NewRow("active")]
    /\ race' = [active |-> TRUE, op |-> "create_interview_session", thread |-> t,
                pc |-> "invoke", c |-> c]
    /\ UNCHANGED <<states, log, interview_sessions, lastResult>>

\* lines 356-361: the graph runs and its result is put in the cache
create_invoke ==
    /\ race.active /\ race.op = "create_interview_session" /\ race.pc = "invoke"
    /\ \E r \in {graph_invoke(initial_state, race.c)} :
          IF r.err
          THEN /\ race' = NoRace
               /\ lastResult' = [NoResult EXCEPT !.op = "create_interview_session",
                                                 !.thread = race.thread,
                                                 !.outcome = "Exception"]
               /\ UNCHANGED states
          ELSE /\ race' = [race EXCEPT !.pc = "save"]
               /\ states' = [states EXCEPT ![race.thread] = r.st]
               /\ UNCHANGED lastResult
    /\ UNCHANGED <<registry, log, interview_sessions>>

\* lines 363-385: the question messages are committed (or the commit fails)
create_save_questions(commits) ==
    /\ race.active /\ race.op = "create_interview_session" /\ race.pc = "save"
    /\ race' = NoRace
    /\ \E result \in {states[race.thread]} :
          IF commits
          THEN /\ log' = [log EXCEPT ![race.thread] =
                            @ \o QuestionMessages(SubSeq(result.questions, 1,
                                                         Min(3, Len(result.questions))))]
               /\ lastResult' = [NoResult EXCEPT !.op = "create_interview_session",
                                                 !.thread = race.thread, !.outcome = "ok",
                                                 !.questions = result.questions,
                                                 !.status = result.status]
          ELSE /\ UNCHANGED log
               /\ lastResult' = [NoResult EXCEPT !.op = "create_interview_session",
                                                 !.thread = race.thread,
                                                 !.outcome = "Exception"]
    /\ UNCHANGED <<states, registry, interview_sessions>>

\* lines 390-428: the state is read, the answer written into it and the
\* answer message committed
submit_save_answer(t, question_number, answer, c) ==
    /\ ~race.active
    /\ CountType(log[t], "answer") < MaxAnswerMsgs
    /\ \E rd \in {submit_read(states[t], registry[t], log[t], question_number, answer)} :
          IF rd.outcome # "go"
          THEN /\ lastResult' = [SubmitResult(t, question_number) EXCEPT
                                   !.outcome = rd.outcome]
               /\ UNCHANGED <<states, log, race>>
          ELSE /\ states' = [states EXCEPT ![t] =
                               IF rd.cached THEN [@ EXCEPT !.answers = rd.state.answers]
                               ELSE @]
               /\ IF ~registry[t].present
                  THEN /\ lastResult' = [SubmitResult(t, question_number) EXCEPT
                                           !.outcome = "ValueError"]
                       /\ UNCHANGED <<log, race>>
                  ELSE /\ log' = [log EXCEPT ![t] =
                                    Append(@, AnswerMessage(question_number, answer))]
                       /\ race' = [active |-> TRUE, op |-> "submit_answer", thread |-> t,
                                   pc |-> "invoke", c |-> c, rd |-> rd,
                                   question_number |-> question_number]
                       /\ UNCHANGED lastResult
    /\ UNCHANGED <<registry, interview_sessions>>

\* lines 430-435: the graph runs and its result is put in the cache
submit_invoke ==
    /\ race.active /\ race.op = "submit_answer" /\ race.pc = "invoke"
    /\ \E e \in {submit_finish(race.thread, race.rd, states[race.thread],
                               registry[race.thread], log[race.thread],
                               race.question_number, race.c)} :
          /\ states' = [states EXCEPT ![race.thread] = e.cache]
          /\ IF e.res.outcome = "Exception"
             THEN /\ race' = NoRace
                  /\ lastResult' = e.res
             ELSE /\ race' = [op |-> "submit_answer", active |-> TRUE, thread |-> race.thread,
                              pc |-> "commit", e |-> e]
                  /\ UNCHANGED lastResult
    /\ UNCHANGED <<registry, log, interview_sessions>>

\* lines 437-485: the feedback message, the completion of the row and the
\* roadmap message are committed
submit_commit ==
    /\ race.active /\ race.op = "submit_answer" /\ race.pc = "commit"
    /\ registry' = [registry EXCEPT ![race.thread] = race.e.row]
    /\ log' = [log EXCEPT ![race.thread] = race.e.msgs]
    /\ lastResult' = race.e.res
    /\ race' = NoRace
    /\ UNCHANGED <<states, interview_sessions>>

\* the process dies: the call in flight and the cache are gone, the
\* database keeps what was committed
crash ==
    /\ race.active \/ \E t \in Threads : states[t].present
    /\ states' = [t \in Threads |-> NoState]
    /\ interview_sessions' = [t \in Threads |-> NoMem]
    /\ race' = NoRace
    /\ lastResult' = [NoResult EXCEPT !.op = "restart"]
    /\ UNCHANGED <<registry, log>>

\* what the steps of the one worker leave alone
steps_frame ==
    UNCHANGED <<peer_states, assessments, assessment_messages, assessment_results, roadmaps>>

CreateCommitRow ==
    /\ \E t \in Threads, c \in StepCollaborators : create_commit_row(t, c)
    /\ steps_frame

CreateInvoke == create_invoke /\ steps_frame

CreateSaveQuestions ==
    /\ \E commits \in BOOLEAN : create_save_questions(commits)
    /\ steps_frame

SubmitSaveAnswer ==
    /\ \E t \in Threads, question_number \in QuestionNumbers, answer \in AnswerTexts,
          c \in StepCollaborators :
          submit_save_answer(t, question_number, answer, c)
    /\ steps_frame

SubmitInvoke == submit_invoke /\ steps_frame

SubmitCommit == submit_commit /\ steps_frame

Crash == crash /\ steps_frame

NextSteps ==
    \/ CreateCommitRow
    \/ CreateInvoke
    \/ CreateSaveQuestions
    \/ SubmitSaveAnswer
    \/ SubmitInvoke
    \/ SubmitCommit
    \/ Crash

SpecSteps == Init /\ [][NextSteps]_vars

\* ------------------------------- the calls that write to a session's log
\* Both routers against one registry and one log: /interview/start and
\* /interview/submit-answers, create_interview_session and submit_answer,
\* and the restart that empties the cache and the in-memory sessions.
NextItems ==
    \/ ApiStartInterview
    \/ ApiSubmitAnswers
    \/ CreateInterviewSession
    \/ SubmitAnswer
    \/ WorkerRestart

SpecItems == Init /\ [][NextItems]_vars

\* ------------------- the assessment graph, one node at a time
\* add_edge of _create_workflow_graph: the node that follows each node
career_edge(node) ==
    CASE node = "start_assessment" -> "generate_questions"
      [] node = "generate_questions" -> "process_responses"
      [] node = "process_responses" -> "analyze_skills"
      [] node = "analyze_skills" -> "analyze_aptitude"
      [] node = "analyze_aptitude" -> "analyze_interests"
      [] node = "analyze_interests" -> "analyze_personality"
      [] node = "analyze_personality" -> "match_careers"
      [] node = "match_careers" -> "identify_gaps"
      [] node = "identify_gaps" -> "generate_recommendations"
      [] node = "generate_recommendations" -> "complete_assessment"
      [] OTHER -> "END"

\* An invocation holds the run of the LLM, the node to run next (the entry
\* point at first), the nodes that have returned so far and the state.
StageCalls ==
    [op : {"call"}, run : WorkflowRuns, node : {"start_assessment"}, trace : {<<>>},
     err : {FALSE}, st : {career_initial_state}]

InitStages ==
    /\ states = [t \in Threads |-> NoState]
    /\ peer_states = [t \in Threads |-> NoState]
    /\ registry = [t \in Threads |-> NoRow]
    /\ log = [t \in Threads |-> <<>>]
    /\ interview_sessions = [t \in Threads |-> NoMem]
    /\ assessments = [a \in Assessments |-> NoAssessment]
    /\ assessment_messages = [a \in Assessments |-> <<>>]
    /\ assessment_results = [a \in Assessments |-> NoAssessmentResult]
    /\ roadmaps = [r \in Roadmaps |-> NoRoadmap]
    /\ race = NoRace
    /\ lastResult \in StageCalls

\* the graph runs the node it stands at and follows the node's edge; the
\* exception of an LLM call leaves the invocation at that node
CareerStage ==
    /\ lastResult.op \in {"call", "stage"}
    /\ lastResult.node # "END"
    /\ ~lastResult.err
    /\ IF lastResult.node = lastResult.run.raises
       THEN lastResult' = [lastResult EXCEPT !.op = "stage", !.err = TRUE]
       ELSE lastResult' = [lastResult EXCEPT
                             !.op = "stage",
                             !.st = career_node(lastResult.node, lastResult.st,
                                                lastResult.run),
                             !.trace = Append(@, lastResult.node),
                             !.node = career_edge(lastResult.node)]
    /\ UNCHANGED <<states, peer_states, registry, log, interview_sessions,
                   assessments, assessment_messages, assessment_results, roadmaps, race>>

NextStages == CareerStage

SpecStages == InitStages /\ [][NextStages]_vars

\* ------------------- the interview graph, one node at a time
\* An invocation holds the collaborators, the node to run next (the entry
\* point at first), the nodes that have returned so far and the state.
GraphCalls ==
    [op : {"call"}, c : [gen : GenOutcomes, replies : {DefaultReplies}, rm : RoadmapOutcomes],
     node : {"start_interview"}, trace : {<<>>}, err : {FALSE}, state : RouteStates]

InitGraph ==
    /\ states = [t \in Threads |-> NoState]
    /\ peer_states = [t \in Threads |-> NoState]
    /\ registry = [t \in Threads |-> NoRow]
    /\ log = [t \in Threads |-> <<>>]
    /\ interview_sessions = [t \in Threads |-> NoMem]
    /\ assessments = [a \in Assessments |-> NoAssessment]
    /\ assessment_messages = [a \in Assessments |-> <<>>]
    /\ assessment_results = [a \in Assessments |-> NoAssessmentResult]
    /\ roadmaps = [r \in Roadmaps |-> NoRoadmap]
    /\ race = NoRace
    /\ lastResult \in GraphCalls

\* what the node the invocation stands at returns
graph_node(node, state, c) ==
    CASE node = "start_interview" -> start_interview(state, c.gen)
      [] node = "process_answer" -> process_answer(state)
      [] node = "generate_feedback" -> generate_feedback_node(state, c.replies)
      [] OTHER -> generate_roadmap_step(state, c.rm)

\* the graph runs the node it stands at and follows the edge that
\* should_continue picks; generate_question raising inside start_interview,
\* or a routing key with no edge, ends the invocation with an exception
GraphStep ==
    /\ lastResult.op \in {"call", "step"}
    /\ lastResult.node # "END"
    /\ ~lastResult.err
    /\ IF lastResult.node = "start_interview" /\ lastResult.c.gen = "raise"
       THEN lastResult' = [lastResult EXCEPT !.op = "step", !.err = TRUE]
       ELSE \E s1 \in {graph_node(lastResult.node, lastResult.state, lastResult.c)} :
               IF next_node(lastResult.node, s1) = "KeyError"
               THEN lastResult' = [lastResult EXCEPT
                                     !.op = "step", !.err = TRUE, !.state = s1,
                                     !.trace = Append(@, lastResult.node)]
               ELSE lastResult' = [lastResult EXCEPT
                                     !.op = "step", !.state = s1,
                                     !.trace = Append(@, lastResult.node),
                                     !.node = next_node(lastResult.node, s1)]
    /\ UNCHANGED <<states, peer_states, registry, log, interview_sessions,
                   assessments, assessment_messages, assessment_results, roadmaps, race>>

NextGraph == GraphStep

SpecGraph == InitGraph /\ [][NextGraph]_vars

\* ------------------------------ two sessions in one worker process
\* create_interview_session gives every session its own thread_id
\* (uuid4); the cache, the registry and the log are keyed by it.
SessionIds == {"t1", "t2"}

\* answer messages the two logs may hold together
MaxSessionAnswers == 2

SessionAnswerTexts == {"a", "b"}

InitSessions ==
    /\ states = [t \in SessionIds |-> NoState]
    /\ peer_states = [t \in Threads |-> NoState]
    /\ registry = [t \in SessionIds |-> NoRow]
    /\ log = [t \in SessionIds |-> <<>>]
    /\ interview_sessions = [t \in SessionIds |-> NoMem]
    /\ assessments = [a \in Assessments |-> NoAssessment]
    /\ assessment_messages = [a \in Assessments |-> <<>>]
    /\ assessment_results = [a \in Assessments |-> NoAssessmentResult]
    /\ roadmaps = [r \in Roadmaps |-> NoRoadmap]
    /\ race = NoRace
    /\ lastResult = NoResult

SessionsCreate ==
    /\ \E t \in SessionIds, c \in StepCollaborators : create_interview_session(t, c)
    /\ interview_frame

SessionsSubmit ==
    /\ CountType(log["t1"], "answer") + CountType(log["t2"], "answer") < MaxSessionAnswers
    /\ \E t \in SessionIds, question_number \in QuestionNumbers,
          answer \in SessionAnswerTexts, c \in StepCollaborators :
          submit_answer(t, question_number, answer, c)
    /\ interview_frame

\* the worker restarts: its cache is empty again
SessionsRestart ==
    /\ \E t \in SessionIds : states[t].present
    /\ states' = [t \in SessionIds |-> NoState]
    /\ lastResult' = [NoResult EXCEPT !.op = "restart"]
    /\ UNCHANGED <<registry, log, interview_sessions>>
    /\ interview_frame

NextSessions ==
    \/ SessionsCreate
    \/ SessionsSubmit
    \/ SessionsRestart

SpecSessions == InitSessions /\ [][NextSessions]_vars

\* ------------------------------------------ the two delete endpoints
\* a thread_id whose row was deleted; uuid4 never hands it out again
DeletedRow == [present |-> FALSE, deleted |-> TRUE]

\* api/interview_v2.py: DELETE /interview/v2/session/{thread_id}.  The 404
\* for a missing row is raised inside the try and leaves as a 500.
delete_interview_session(t) ==
    LET res == [NoResult EXCEPT !.op = "delete_interview_session", !.thread = t]
    IN IF ~registry[t].present
       THEN /\ lastResult' = [res EXCEPT !.outcome = "HTTP500"]
            /\ UNCHANGED <<states, registry, log, interview_sessions>>
       ELSE /\ log' = [log EXCEPT ![t] = <<>>]
            /\ registry' = [registry EXCEPT ![t] = DeletedRow]
            /\ states' = [states EXCEPT ![t] = NoState]
            /\ lastResult' = [res EXCEPT !.outcome = "ok"]
            /\ UNCHANGED interview_sessions

\* api/interview.py: DELETE /interview/session/{session_id}
delete_session(t) ==
    LET res == [NoResult EXCEPT !.op = "delete_session", !.thread = t]
    IN IF ~registry[t].present
       THEN /\ lastResult' = [res EXCEPT !.outcome = "HTTP404"]
            /\ UNCHANGED <<states, registry, log, interview_sessions>>
       ELSE /\ log' = [log EXCEPT ![t] = <<>>]
            /\ registry' = [registry EXCEPT ![t] = DeletedRow]
            /\ lastResult' = [res EXCEPT !.outcome = "ok"]
            /\ UNCHANGED <<states, interview_sessions>>

DeleteCreateInterviewSession ==
    /\ \E t \in Threads, c \in StepCollaborators :
          /\ registry[t] = NoRow
          /\ create_interview_session(t, c)
    /\ interview_frame

DeleteInterviewSession ==
    /\ \E t \in Threads : delete_interview_session(t)
    /\ interview_frame

DeleteSession ==
    /\ \E t \in Threads : delete_session(t)
    /\ interview_frame

NextDelete ==
    \/ DeleteCreateInterviewSession
    \/ SubmitAnswer
    \/ DeleteInterviewSession
    \/ DeleteSession

SpecDelete == Init /\ [][NextDelete]_vars

\* ------------------------------ fix_assessment_status.py and the scores
\* fix_assessment_statuses on one row: a row in "processing" is completed,
\* and gets the sample scores and the sample analysis when it has none
fix_assessment_status(assessment) ==
    IF ~assessment.present \/ assessment.status # "processing" THEN assessment
    ELSE LET scored == IF assessment.overall_score = 0
                       THEN [assessment EXCEPT !.skills_score = 75, !.aptitude_score = 80,
                                               !.interest_score = 85, !.overall_score = 80]
                       ELSE assessment
         IN [scored EXCEPT !.status = "completed", !.completed_at = TRUE,
                           !.analysis_results = IF @.none THEN Json("sample analysis") ELSE @]

fix_assessment_statuses ==
    /\ assessments' = [a \in Assessments |-> fix_assessment_status(assessments[a])]
    /\ lastResult' = AssessmentResponse("fix_assessment_statuses", "", "ok")
    /\ UNCHANGED <<assessment_messages, assessment_results>>

FixAssessmentStatuses ==
    /\ fix_assessment_statuses
    /\ assessment_frame

NextScores ==
    \/ StartCareerAssessment
    \/ SubmitAssessmentResponses
    \/ GetAssessmentResults
    \/ RestartAssessment
    \/ FixAssessmentStatuses

SpecScores == Init /\ [][NextScores]_vars

\* ------------------------------ the roadmaps and their checkpoints
NextRoadmaps ==
    \/ GenerateRoadmapFromRecommendation
    \/ UpdateStepProgress

SpecRoadmaps == Init /\ [][NextRoadmaps]_vars

\* ------------------------------------------------- helpers of the claims
RECURSIVE AnswerNumbers(_)
AnswerNumbers(msgs) ==
    IF Len(msgs) = 0 THEN <<>>
    ELSE (IF msgs[1].message_type = "answer" THEN <<msgs[1].question_number>> ELSE <<>>)
         \o AnswerNumbers(Tail(msgs))

AllNonEmpty(questions) == \A i \in 1..Len(questions) : questions[i] # ""

\* the log of a session made by create_interview_session and then answered
\* by submit_answer for the given ordinals, in that order
ManagedLogWithAnswers(t, ordinals) ==
    /\ registry[t].present
    /\ Len(log[t]) = 3 + Len(ordinals)
    /\ \A i \in 1..3 : log[t][i].message_type = "question"
    /\ AnswerNumbers(log[t]) = ordinals

Rebuilt(t) == load_state_from_db(registry[t], log[t])

HasRoadmapMessage(msgs) ==
    \E i \in 1..Len(msgs) : msgs[i].message_type = "roadmap" /\ msgs[i].content # ""

\* what a reader of the session sees of a state
SessionView(state) ==
    [status |-> state.status, questions |-> state.questions, answers |-> state.answers,
     feedback_count |-> Len(state.feedback), marks |-> state.marks,
     roadmap |-> state.roadmap, total_score |-> state.total_score,
     average_score |-> state.average_score]

\* C1: after create_interview_session, submit_answer for ordinals 1, 2, 3
\* makes the third call return completed with status "completed" and leaves
\* a non-empty roadmap in the state.
C1_ThirdSubmitCompletes ==
    \A t \in Threads :
        (/\ ManagedLogWithAnswers(t, <<1, 2, 3>>)
         /\ lastResult.op = "submit_answer" /\ lastResult.thread = t
         /\ lastResult.question_number = 3 /\ lastResult.outcome = "ok")
        => (/\ lastResult.completed
            /\ lastResult.status = "completed"
            /\ states[t].present /\ states[t].roadmap # "")

\* C2: when create_interview_session returns, it returns exactly 3 non-empty
\* prompts with status "in_progress", and the session state then holds no
\* answer, no feedback and an empty roadmap.
C2_CreateReturnsThreePrompts ==
    (lastResult.op = "create_interview_session" /\ lastResult.outcome = "ok")
    => (/\ Len(lastResult.questions) = 3
        /\ AllNonEmpty(lastResult.questions)
        /\ lastResult.status = "in_progress"
        /\ LET state == states[lastResult.thread]
           IN /\ state.present
              /\ state.answers = <<>>
              /\ state.feedback = <<>>
              /\ state.roadmap = "")

C2_Witness ==
    /\ lastResult.op = "create_interview_session"
    /\ lastResult.outcome = "ok"
    /\ Len(log[lastResult.thread]) = 3

\* C3: a status of "completed", in the cached state or in the registry row,
\* implies a non-empty roadmap and exactly 3 recorded answers.
C3_CompletedImpliesSummaryAndAnswers ==
    \A t \in Threads :
        /\ (registry[t].present /\ registry[t].status = "completed")
           => (HasRoadmapMessage(log[t]) /\ CountType(log[t], "answer") = 3)
        /\ (states[t].present /\ states[t].status = "completed")
           => (states[t].roadmap # "" /\ Len(states[t].answers) = 3)

\* C4: the number of recorded answers never exceeds the number of prompts,
\* in the cached state and in the state rebuilt from the log.
C4_AnswersNeverExceedPrompts ==
    \A t \in Threads :
        /\ states[t].present => Len(states[t].answers) <= Len(states[t].questions)
        /\ registry[t].present => Len(Rebuilt(t).answers) <= Len(Rebuilt(t).questions)

\* C5: submit_answer for ordinal k with k-1 answers recorded succeeds, and
\* submit_answer with a question_number outside 1..3 fails with an error and
\* leaves cache, log and registry unchanged.
C5_OrdinalChecked ==
    [][\A t \in Threads :
         (lastResult'.op = "submit_answer" /\ lastResult'.thread = t)
         => /\ (/\ registry[t].present
                /\ lastResult'.question_number \in 1..3
                /\ CountType(log[t], "answer") = lastResult'.question_number - 1)
               => lastResult'.outcome = "ok"
            /\ lastResult'.question_number \notin 1..3
               => (lastResult'.outcome # "ok" /\ UNCHANGED <<states, registry, log>>)]_vars

\* C6: an answer submitted for a session whose status is already
\* "completed" is rejected, and neither log, cache nor registry changes.
C6_CompletedRejectsAnswers ==
    [][\A t \in Threads :
         (/\ lastResult'.op \in {"submit_answer", "submit_answers"}
          /\ lastResult'.thread = t
          /\ registry[t].present /\ registry[t].status = "completed")
         => (lastResult'.outcome # "ok" /\ UNCHANGED <<states, registry, log>>)]_vars

\* C7: the cached state of a session equals the state rebuilt from the log
\* and the registry row, so a read after eviction returns what it returned
\* before.
C7_CacheEqualsRebuilt ==
    \A t \in Threads :
        states[t].present => SessionView(states[t]) = SessionView(Rebuilt(t))

\* C9: whatever the question generator does, create_interview_session
\* returns 3 non-empty prompts without an exception, and once ordinals 1, 2,
\* 3 are submitted the session is completed with a non-empty roadmap.
C9_FallbackSafety ==
    /\ lastResult.op = "create_interview_session"
       => (/\ lastResult.outcome = "ok"
           /\ Len(lastResult.questions) = 3
           /\ AllNonEmpty(lastResult.questions))
    /\ \A t \in Threads :
         (ManagedLogWithAnswers(t, <<1, 2, 3>>) /\ lastResult.op = "submit_answer")
         => (registry[t].status = "completed" /\ HasRoadmapMessage(log[t]))

\* both calls of the race have returned or raised
RaceDone == race.active /\ \A w \in Workers : race.calls[w].pc = "done"

\* the caches of both workers, the row, the log and what the two calls
\* returned, once both are done
RaceFinal ==
    [cache |-> [w \in Workers |-> WorkerCache(w, race.thread)],
     registry |-> registry[race.thread],
     log |-> log[race.thread],
     res |-> [w \in Workers |-> race.calls[w].res]]

\* the two calls run one after the other, worker `first` first, from the
\* state the race began in, leave caches, row, log and results as `final`
SerialOrderLeaves(first, final) ==
    LET second == OtherWorker(first)
        t == race.thread
    IN \E e1 \in {submit_answer_effect(t, race.pre.cache[first], race.pre.registry,
                                       race.pre.log, race.calls[first].question_number,
                                       race.calls[first].answer, race.calls[first].c)} :
       \E e2 \in {submit_answer_effect(t, race.pre.cache[second], e1.row, e1.msgs,
                                       race.calls[second].question_number,
                                       race.calls[second].answer, race.calls[second].c)} :
          final = [cache |-> [w \in Workers |-> IF w = first THEN e1.cache ELSE e2.cache],
                   registry |-> e2.row,
                   log |-> e2.msgs,
                   res |-> [w \in Workers |-> IF w = first THEN e1.res ELSE e2.res]]

\* the answer messages appended since the race began
RaceAnswerMessages ==
    LET msgs == log[race.thread]
        new == SubSeq(msgs, Len(race.pre.log) + 1, Len(msgs))
    IN {new[i] : i \in {j \in 1..Len(new) : new[j].message_type = "answer"}}

RestartedCompleted(a) ==
    /\ assessments[a].present
    /\ assessments[a].status = "completed"
    /\ lastResult'.op = "restart_assessment"
    /\ lastResult'.assessment = a
    /\ lastResult'.outcome = "ok"

\* the row, and what the two reads of the session return for it, show the
\* given status and nothing of a finished run
ShowsNewRun(assessment, status) ==
    /\ assessment.status = status
    /\ assessment.responses = NoneJson
    /\ assessment.analysis_results = NoneJson
    /\ assessment.completed_at = FALSE
    /\ assessment_results_view(assessment)
          = [status |-> status, message |-> "Assessment is not completed yet"]
    /\ AssessmentSummaryResponse(assessment)
          = [status |-> status, skills_score |-> 0, aptitude_score |-> 0,
             interest_score |-> 0, overall_score |-> 0, completed_at |-> FALSE]

IsPrefix(s, t) == Len(s) <= Len(t) /\ SubSeq(t, 1, Len(s)) = s

\* C11: restart_assessment deletes nothing of the log: every message the
\* assessment had before the restart is still there, unchanged, after it.
C11_RestartKeepsLog ==
    [][\A a \in Assessments :
         (/\ lastResult'.op = "restart_assessment"
          /\ lastResult'.assessment = a
          /\ lastResult'.outcome = "ok")
         => IsPrefix(assessment_messages[a], assessment_messages'[a])]_vars

CompletedInterview(t) ==
    /\ lastResult.thread = t
    /\ lastResult.outcome = "ok"
    /\ \/ lastResult.op = "submit_answers"
       \/ lastResult.op = "submit_answer" /\ lastResult.completed

\* C13: when an interview completes there are three per-answer scores, the
\* total score is their sum and the average score is that sum divided by 3,
\* both in the returned result and in the registry row.
C13_AggregateScore ==
    \A t \in Threads :
       CompletedInterview(t)
       => LET marks == Rebuilt(t).marks
              total == SumSeq(marks)
          IN /\ Len(marks) = 3
             /\ lastResult.total_score = total
             /\ lastResult.average_score = [num |-> total, den |-> 3]
             /\ registry[t].total_score = total
             /\ registry[t].average_score = [num |-> total, den |-> 3]

C13_Witness ==
    \E t \in Threads :
       /\ CompletedInterview(t)
       /\ registry[t].status = "completed"
       /\ \E i, j \in 1..3 : Rebuilt(t).marks[i] # Rebuilt(t).marks[j]

\* the place of a status in the order started, in_progress, processing,
\* completed; a row created as "active" starts where "in_progress" does
StatusRank(status) ==
    IF status = "started" THEN 0
    ELSE IF status \in {"active", "in_progress"} THEN 1
    ELSE IF status = "processing" THEN 2
    ELSE 3

\* the status get_session_status reports: the cached state's, else the row's
ReportedStatus(cache, db_session) ==
    IF cache.present THEN cache.status ELSE db_session.status

\* C14: no operation moves the status a session reports to an earlier value
\* of started -> in_progress -> processing -> completed (a process restart,
\* which only empties the cache, is left aside).
C14_StatusMonotonic ==
    [][\A t \in Threads :
         (registry[t].present /\ registry'[t].present /\ lastResult'.op # "restart")
         => StatusRank(ReportedStatus(states'[t], registry'[t]))
              >= StatusRank(ReportedStatus(states[t], registry[t]))]_vars

\* C15: an assessment whose registry row is "completed" holds a response for
\* every question it asked (no fewer than the shortest question list).
C15_CompletedHasAllResponses ==
    \A a \in Assessments :
       (assessments[a].present /\ assessments[a].status = "completed")
       => /\ ~assessments[a].responses.none
          /\ Len(assessments[a].responses.value) >= Len(get_fallback_questions)

\* C16: submit_assessment_responses on an assessment whose status is not
\* "active" is rejected with the validation error (422) and writes nothing:
\* no message, no result row, no score and no status.
C16_NonActiveSubmitRejected ==
    [][\A a \in Assessments :
         (/\ lastResult'.op = "submit_assessment_responses"
          /\ lastResult'.assessment = a
          /\ assessments[a].present
          /\ assessments[a].status # "active")
         => /\ lastResult'.outcome = "HTTP422"
            /\ assessments'[a] = assessments[a]
            /\ assessment_messages'[a] = assessment_messages[a]
            /\ assessment_results'[a] = assessment_results[a]]_vars

C16_Witness ==
    \E a \in Assessments :
       /\ lastResult.op = "submit_assessment_responses"
       /\ lastResult.assessment = a
       /\ lastResult.outcome = "HTTP422"
       /\ assessments[a].status = "completed"
       /\ assessment_results[a].present

\* C17: create_interview_session, submit_answer, get_chat_history and
\* get_session_status only append to a session's log: every message it held
\* before the call is still there after it, unchanged and in the same place.
C17_LogAppendOnly ==
    [][\A t \in Threads :
         lastResult'.op \in {"create_interview_session", "submit_answer",
                             "get_chat_history", "get_session_status"}
         => IsPrefix(log[t], log'[t])]_vars

C17_Witness ==
    \E t \in Threads :
       /\ lastResult.op = "get_chat_history"
       /\ lastResult.thread = t
       /\ lastResult.outcome = "ok"
       /\ lastResult.messages = log[t]
       /\ CountType(log[t], "question") = 3
       /\ CountType(log[t], "answer") >= 2

\* the i-th call of generate_feedback reached feedback_llm
CallsLLM(call, i) ==
    /\ Len(call.question) >= 3 /\ Len(call.answer) >= 3
    /\ call.question[i] # ""
    /\ call.answer[i] \notin {"", "[No answer provided]"}

\* C18: every item feedback_generator returns has a score in 0..10 and a
\* non-empty feedback text, whatever the collaborator does and whatever is
\* missing; when the collaborator raises the score is the default 5.
C18_FeedbackItemsWellFormed ==
    lastResult.op = "feedback_generator"
    => /\ Len(lastResult.feedback) >= 1
       /\ \A i \in 1..Len(lastResult.feedback) :
             /\ lastResult.feedback[i].marks \in 0..10
             /\ lastResult.feedback[i].feedback # ""
             /\ (CallsLLM(lastResult, i) /\ lastResult.replies[i].raises)
                => lastResult.feedback[i].marks = 5

C18_Witness ==
    /\ lastResult.op = "feedback_generator"
    /\ Len(lastResult.feedback) = 3
    /\ CallsLLM(lastResult, 1) /\ lastResult.replies[1].raises
    /\ CallsLLM(lastResult, 2) /\ lastResult.replies[2].value = 15
    /\ lastResult.answer[3] = ""

\* C19: generate_roadmap never returns an empty roadmap; when the collaborator
\* raises it returns the error roadmap in place of raising.
C19_RoadmapNeverEmpty ==
    lastResult.op = "generate_roadmap"
    => /\ lastResult.roadmap # ""
       /\ (Len(lastResult.feedback) > 0 /\ lastResult.rm = "raise")
          => lastResult.roadmap = "# Error Generating Roadmap"

C19_Witness ==
    /\ lastResult.op = "generate_roadmap"
    /\ Len(lastResult.feedback) = 3
    /\ lastResult.rm = "empty"
    /\ lastResult.roadmap # ""

AnalyzeStages ==
    {"analyze_skills", "analyze_aptitude", "analyze_interests", "analyze_personality"}

\* the collaborator of an Analyze* stage fails: its call raises, or its
\* reply does not parse
AnalyzeCollaboratorFails(run) ==
    run.raises \in AnalyzeStages \/ (run.raises = "none" /\ ~run.parses)

\* C20: when the collaborator of an Analyze* stage fails the run does not
\* raise, the stage stores the default analysis with the "error" marker and
\* score 0, and the stages after it run to complete_assessment.
C20_AnalyzeFailureContained ==
    (lastResult.op = "career_graph_ainvoke" /\ AnalyzeCollaboratorFails(lastResult.run))
    => /\ ~lastResult.err
       /\ lastResult.st.status = "completed"
       /\ \/ lastResult.st.skills_analysis = "error" /\ lastResult.st.skills_score = 0
          \/ lastResult.st.aptitude_analysis = "error" /\ lastResult.st.aptitude_score = 0
          \/ lastResult.st.interest_analysis = "error" /\ lastResult.st.interest_score = 0
          \/ lastResult.st.personality_analysis = "error"

\* C21: start_career_assessment succeeds whatever the workflow does: when
\* graph.ainvoke raises it still returns status "active" with the fallback
\* questions, never an error.
C21_StartSurvivesWorkflowFailure ==
    lastResult.op = "start_career_assessment"
    => /\ lastResult.outcome = "ok"
       /\ lastResult.status = "active"
       /\ Len(lastResult.body.questions) > 0

\* C22: a session started through /interview/start and not yet completed is
\* completed by submit_answers with 3 answers, also when the entry of
\* interview_sessions has been lost in between.
C22_SubmitAnswersSurvivesRestart ==
    [][\A t \in Threads :
         (/\ registry[t].present
          /\ registry[t].status = "in_progress"
          /\ lastResult'.op = "submit_answers"
          /\ lastResult'.thread = t
          /\ lastResult'.outcome # "HTTP400")
         => /\ lastResult'.outcome = "ok"
            /\ registry'[t].status = "completed"]_vars

\* the routing key the claim gives for a state
RoutingKey(state) ==
    IF Len(state.answers) < 3 THEN "wait_for_answer"
    ELSE IF state.feedback = <<>> THEN "generate_feedback"
    ELSE IF state.roadmap = "" THEN "generate_roadmap"
    ELSE "end"

\* halt, scoring stage, synthesis stage, terminal
StageOfKey(key) ==
    IF key = "generate_feedback" THEN "generate_feedback"
    ELSE IF key = "generate_roadmap" THEN "generate_roadmap"
    ELSE "END"

C24_SubmittedAnswerKept ==
    \A t \in Threads :
       (/\ lastResult.op = "submit_answer"
        /\ lastResult.thread = t
        /\ lastResult.outcome = "ok"
        /\ lastResult.question_number >= 1)
       => /\ states[t].present
          /\ Len(states[t].answers) >= lastResult.question_number
          /\ states[t].answers[lastResult.question_number] \in AnswerTexts

\* the question messages of the cached state of t are in the log
CachedQuestionsLogged(t) ==
    CountType(log[t], "question") >= Min(3, Len(states[t].questions))

\* C25: the cache never holds a state whose events are not yet in the log:
\* when a session has a cache entry, the questions of that entry have been
\* appended to the message log.
C25_DurableBeforeCache ==
    \A t \in Threads : states[t].present => CachedQuestionsLogged(t)

\* the places in msgs of the answer messages of ordinal k
AnswerEvents(msgs, k) ==
    {i \in 1..Len(msgs) : msgs[i].message_type = "answer" /\ msgs[i].question_number = k}

\* the content of the latest answer message of ordinal k
LatestAnswer(msgs, k) ==
    msgs[CHOOSE i \in AnswerEvents(msgs, k) : \A j \in AnswerEvents(msgs, k) : j <= i].content

\* C26: in the state rebuilt from a log, answers[k] is the content of the
\* latest answer message of ordinal k, and a slot with no answer message is
\* not answered.
C26_AnswersPlacedByOrdinal ==
    \A t \in Threads :
       (/\ lastResult.op = "_load_state_from_db"
        /\ lastResult.thread = t
        /\ lastResult.state.present)
       => \A k \in 1..3 :
             IF AnswerEvents(log[t], k) # {}
             THEN /\ Len(lastResult.state.answers) >= k
                  /\ lastResult.state.answers[k] = LatestAnswer(log[t], k)
             ELSE \/ Len(lastResult.state.answers) < k
                  \/ lastResult.state.answers[k] = ""

\* C27: the status of a rebuilt state comes from the routing predicate on
\* the rebuilt payload: it is "completed" just when the payload has 3
\* answers, feedback and a roadmap, and it is the status the live pipeline
\* left in the cache for the same events.
C27_StatusDerivedFromPayload ==
    \A t \in Threads :
       registry[t].present
       => /\ (Rebuilt(t).status = "completed")
               <=> (should_continue(Rebuilt(t)) = "end")
          /\ states[t].present => Rebuilt(t).status = states[t].status

\* C28: when the registry row of a session exists and its log holds no
\* message, _load_state_from_db returns no state for it.
C28_EmptyLogReported ==
    \A t \in Threads :
       (/\ lastResult.op = "_load_state_from_db"
        /\ lastResult.thread = t
        /\ registry[t].present
        /\ log[t] = <<>>)
       => ~lastResult.state.present

\* C29: once create_interview_session is over for a session, whether it
\* returned, raised or was cut short by a crash, a registry row of the
\* session comes with its 3 question messages in the log.
C29_CreationCrashSafe ==
    \A t \in Threads :
       (/\ registry[t].present
        /\ ~(race.active /\ race.op = "create_interview_session" /\ race.thread = t))
       => CountType(log[t], "question") = 3

\* C30: every item is logged once. The log of a completed session holds
\* exactly 3 question messages, 3 feedback messages that each carry their
\* marks and exactly one roadmap message, and at least the 3 answers of the
\* completing call; and every call writes one answer message per answer it
\* took: 3 for an accepted submit_answers, 1 for an accepted submit_answer,
\* at most 1 for a submit_answer that failed, none for any other call.
LoggedOnceWhenCompleted ==
    \A t \in Threads :
       registry[t].present /\ registry[t].status = "completed"
       => /\ CountType(log[t], "question") = 3
          /\ CountType(log[t], "feedback") = 3
          /\ CountType(log[t], "roadmap") = 1
          /\ CountType(log[t], "answer") >= 3
          /\ \A i \in 1..Len(log[t]) :
                log[t][i].message_type = "feedback" => log[t][i].marks # NoneInt

AnswersLoggedBy(t) == CountType(log'[t], "answer") - CountType(log[t], "answer")

OneEventPerAnswer ==
    \A t \in Threads :
       IF lastResult'.op = "submit_answers" /\ lastResult'.thread = t
          /\ lastResult'.outcome = "ok"
       THEN AnswersLoggedBy(t) = 3
       ELSE IF lastResult'.op = "submit_answer" /\ lastResult'.thread = t
       THEN /\ AnswersLoggedBy(t) \in {0, 1}
            /\ lastResult'.outcome = "ok" => AnswersLoggedBy(t) = 1
       ELSE AnswersLoggedBy(t) = 0

C31_AllStagesInOrder ==
    (lastResult.op = "stage" /\ (lastResult.node = "END" \/ lastResult.err))
    => /\ lastResult.trace = CareerNodes
       /\ lastResult.st.status = "completed"

\* C32: no node runs twice in an invocation of the interview graph, and no
\* invocation ends with an exception: each goes on until it stands at END.
C32_InvocationReachesEnd ==
    /\ lastResult.op = "step"
       => \A i, j \in 1..Len(lastResult.trace) :
             lastResult.trace[i] = lastResult.trace[j] => i = j
    /\ lastResult.op = "step" => ~lastResult.err

\* C33: create_interview_session and submit_answer on one session leave the
\* cache entry, the log and the registry row of every other session as they
\* were.
C33_SessionsIndependent ==
    [][\A t, u \in SessionIds :
         (/\ lastResult'.op \in {"create_interview_session", "submit_answer"}
          /\ lastResult'.thread = t
          /\ u # t)
         => /\ states'[u] = states[u]
            /\ log'[u] = log[u]
            /\ registry'[u] = registry[u]]_vars

C33_Witness ==
    /\ lastResult.op = "submit_answer"
    /\ lastResult.thread = "t2"
    /\ lastResult.outcome = "ok"
    /\ states["t1"].present
    /\ states["t2"].present
    /\ CountType(log["t1"], "answer") = 1
    /\ CountType(log["t2"], "answer") = 1
    /\ log["t1"] # log["t2"]

\* C34: when create_interview_session or submit_answer has returned, the
\* status in the session's registry row is the status of its cached state.
C34_RegistryStatusIsCacheStatus ==
    \A t \in Threads :
       (/\ lastResult.op \in {"create_interview_session", "submit_answer"}
        /\ lastResult.thread = t
        /\ lastResult.outcome = "ok")
       => (registry[t].present /\ states[t].present
           /\ registry[t].status = states[t].status)

\* C35: whenever submit_answer in a worker takes the session's state from
\* the worker's cache, the cached state holds the answers of every answer
\* message that any worker has appended to the session's log.
C35_CacheNotOlderThanLog ==
    [][\A w \in Workers :
         (/\ race.active /\ race'.active
          /\ race.calls[w].pc = "read"
          /\ race'.calls[w].pc = "append"
          /\ race'.calls[w].rd.cached)
         => WorkerCache(w, race.thread).answers
               = load_state_from_db(registry[race.thread], log[race.thread]).answers]_vars

\* C36: when the generator has returned 3 prompts, create_interview_session
\* returns those 3 prompts and logs them as its question messages; it
\* returns the fallback list only when the generator returned fewer than 3.
C36_GeneratedPromptsUsed ==
    [][(/\ race.active
        /\ race.op = "create_interview_session"
        /\ race.pc = "save"
        /\ lastResult'.op = "create_interview_session"
        /\ lastResult'.outcome = "ok")
       => /\ race.c.gen = "ok"
             => /\ lastResult'.questions = generate_question("ok")["question"]
                /\ log'[race.thread]
                      = log[race.thread] \o QuestionMessages(generate_question("ok")["question"])
          /\ lastResult'.questions = FallbackQuestions => race.c.gen = "short"]_vars

\* C37: a submit_answer call that fails leaves the session's cache entry,
\* its answers list included, exactly as it was before the call.
C37_FailedSubmitKeepsCache ==
    [][\A t \in Threads :
         (/\ lastResult'.op = "submit_answer"
          /\ lastResult'.thread = t
          /\ lastResult'.outcome # "ok")
         => states'[t] = states[t]]_vars

\* C38: the cache holds an entry only for a session whose registry row
\* exists.
C38_NoCacheEntryWithoutRow ==
    \A t \in Threads : states[t].present => registry[t].present

\* C39: a completed assessment has an overall_score that is the mean of its
\* skills_score, aptitude_score and interest_score, and an assessment that
\* restart_assessment has just reset has all four scores at 0.
C39_OverallScoreIsMean ==
    \A a \in Assessments :
       /\ (assessments[a].present /\ assessments[a].status = "completed")
          => 3 * assessments[a].overall_score
                = assessments[a].skills_score + assessments[a].aptitude_score
                  + assessments[a].interest_score
       /\ (/\ lastResult.op = "restart_assessment"
           /\ lastResult.assessment = a
           /\ lastResult.outcome = "ok")
          => /\ assessments[a].skills_score = 0
             /\ assessments[a].aptitude_score = 0
             /\ assessments[a].interest_score = 0
             /\ assessments[a].overall_score = 0

C39_Witness ==
    \E a \in Assessments :
       /\ assessments[a].present
       /\ assessments[a].status = "completed"
       /\ assessments[a].overall_score = 75
       /\ assessments[a].aptitude_score = 80
       /\ lastResult.op = "fix_assessment_statuses"

\* C40: for every active learning roadmap, after any sequence of
\* update_step_progress calls by any users, completed_steps equals the number
\* of its checkpoints marked completed, completed_steps <= total_steps and
\* progress_percentage equals completed_steps / total_steps * 100; a call by a
\* user who does not own the roadmap changes none of its checkpoints.
RoadmapProgressConsistent ==
    \A r \in Roadmaps :
        (roadmaps[r].present /\ roadmaps[r].is_active)
        => /\ roadmaps[r].completed_steps = CountCompleted(roadmaps[r].checkpoints)
           /\ roadmaps[r].completed_steps <= roadmaps[r].total_steps
           /\ roadmaps[r].progress_percentage.num * roadmaps[r].total_steps
                 = roadmaps[r].completed_steps * 100 * roadmaps[r].progress_percentage.den

StrangerChangesNoCheckpoint ==
    (lastResult'.op = "update_step_progress" /\ roadmaps' # roadmaps)
    => lastResult'.user = roadmaps[lastResult'.roadmap].user_id

C40_ProgressMatchesCheckpoints ==
    [](RoadmapProgressConsistent) /\ [][StrangerChangesNoCheckpoint]_vars

====
